---- MODULE Spec2Model ----
(***************************************************************************)
(* Model of the viewport state engine of viewport-sense:                   *)
(*   src/src/core/events.ts    EventManager (listener registry, RAF        *)
(*                             batching, debounce)                         *)
(*   src/src/core/viewport.ts  ViewportCore (state computation, change     *)
(*                             detection, native signal adapters,          *)
(*                             lifecycle)                                  *)
(* The host (browser) is modelled by the window values the engine reads    *)
(* (an input of every recomputation: the window may have changed in any    *)
(* way since the last one), by the listener registrations it holds for the *)
(* engine, and by the animation frame and the timers it has pending.       *)
(* JavaScript runs every callback to completion: a step of the model is    *)
(* either one host callback or API call, or the invocation of one          *)
(* subscriber handler inside an emission that is in progress.              *)
(***************************************************************************)
EXTENDS Integers, Sequences, FiniteSets, TLC

\* ---------------------------------------------------------------- bounds
\* Upper bound on the callbacks queued for one animation frame.
MaxBurst == 2
\* Upper bound on the orientation settle timers pending at the same time.
MaxTimers == 1
\* Upper bound on the handler registrations held by the event manager.
MaxListeners == 2

\* Upper bound on the on() calls made on an EventManager used on its own.
MaxOn == 3

\* Upper bound on the scheduleRAF calls made before a frame fires.
MaxSchedule == 4

\* Upper bounds on the calls of a debounced function, on the time they are
\* made in and on the delay given to debounce.
MaxCalls == 3
MaxTime == 4
MaxDelay == 2

\* Upper bound on the entries of a breakpoint table given in a configuration.
MaxEntries == 2

\* Upper bound on the BreakpointJS instances made.
MaxInstances == 3

\* Upper bound on the on() calls counted for one handler and one kind: the
\* calls beyond it are made and not counted.
MaxGiven == 2

\* Two subscriber functions.
Handlers == {"h1", "h2"}

\* ------------------------------------------------------- host environment
\* window.devicePixelRatio is a fraction when the page is zoomed out: pixel
\* ratios are counted in halves, and One is the ratio 1.
One == 2

\* Representative window values << innerWidth, innerHeight, maxTouchPoints >>:
\* a landscape lg window without touch, and the same with another breakpoint
\* (md), with another orientation and with touch.
WindowValues == { << 1024, 768, 0 >>, << 800, 768, 0 >>,
                  << 1024, 1100, 0 >>, << 1024, 768, 1 >> }
\* The window objects the engine may find when it reads the window.
Windows ==
  { [ innerWidth |-> v[1], innerHeight |-> v[2], maxTouchPoints |-> v[3],
      ontouchstart |-> FALSE, devicePixelRatio |-> 2 * One,
      hasScreen |-> TRUE, availWidth |-> 1920, availHeight |-> 1080 ]
    : v \in WindowValues }
\* The host APIs the constructor finds: both ResizeObserver and
\* visualViewport, or neither.
HostAPIs ==
  { [ResizeObserver |-> TRUE, visualViewport |-> TRUE],
    [ResizeObserver |-> FALSE, visualViewport |-> FALSE] }

\* ------------------------------------------------------------- constants
DEFAULT_BREAKPOINTS ==
  << [name |-> "xs", value |-> 0],
     [name |-> "sm", value |-> 576],
     [name |-> "md", value |-> 768],
     [name |-> "lg", value |-> 992],
     [name |-> "xl", value |-> 1200],
     [name |-> "xxl", value |-> 1400] >>

DEFAULT_CONFIG ==
  [ breakpoints |-> DEFAULT_BREAKPOINTS,
    debounceDelay |-> 100,
    enableTouch |-> TRUE,
    enableHighDPI |-> TRUE,
    customBreakpoints |-> << >> ]

\* The event kinds ViewportCore emits ('scroll' and 'visibility' of the
\* EventType union are emitted by other managers).
EventTypes == {"resize", "breakpointchange", "orientationchange", "touchchange"}

\* currentState === null
Null ==
  [ width |-> -1, height |-> -1, breakpoint |-> "null",
    isMobile |-> FALSE, isTablet |-> FALSE, isDesktop |-> FALSE,
    isTouch |-> FALSE, orientation |-> "null", pixelRatio |-> -1,
    availableWidth |-> -1, availableHeight |-> -1 ]

\* ------------------------------------------------------- pure functions
Names(table) == { table[i].name : i \in 1..Len(table) }

Lookup(table, n) == (CHOOSE i \in 1..Len(table) : table[i].name = n)

\* { ...a, ...b }: the keys of a keep their position and take b's value when
\* b has the same key; the keys only b has follow in b's order.
RECURSIVE Spread(_, _)
Spread(a, b) ==
  IF b = << >> THEN a
  ELSE LET e == Head(b) IN
       IF e.name \in Names(a)
       THEN Spread([a EXCEPT ![Lookup(a, e.name)] = e], Tail(b))
       ELSE Spread(Append(a, e), Tail(b))

\* Array.prototype.sort is stable: entries that compare equal keep their
\* relative order.  InsertBy puts e behind every entry that does not have to
\* follow it.
RECURSIVE InsertBy(_, _, _)
InsertBy(s, e, desc) ==
  IF s = << >> THEN << e >>
  ELSE IF (IF desc THEN Head(s).value >= e.value ELSE Head(s).value <= e.value)
       THEN << Head(s) >> \o InsertBy(Tail(s), e, desc)
       ELSE << e >> \o s

RECURSIVE SortBy(_, _)
SortBy(s, desc) ==
  IF s = << >> THEN << >>
  ELSE InsertBy(SortBy(SubSeq(s, 1, Len(s) - 1), desc), s[Len(s)], desc)

RECURSIVE FirstAtMost(_, _)
FirstAtMost(sorted, width) ==
  IF sorted = << >> THEN "none"
  ELSE IF width >= Head(sorted).value THEN Head(sorted).name
       ELSE FirstAtMost(Tail(sorted), width)

\* calculateBreakpoint with its loop over the ascending table
calculateBreakpoint_ascending(config, width) ==
  LET allBreakpoints == Spread(config.breakpoints, config.customBreakpoints)
      ascending == SortBy(allBreakpoints, FALSE)
      found == FirstAtMost(ascending, width)
  IN IF found # "none" THEN found
     ELSE IF ascending # << >> THEN ascending[1].name ELSE "xs"

\* calculateBreakpoint falling back to the largest entry
calculateBreakpoint_fallbackLargest(config, width) ==
  LET allBreakpoints == Spread(config.breakpoints, config.customBreakpoints)
      sortedBreakpoints == SortBy(allBreakpoints, TRUE)
      found == FirstAtMost(sortedBreakpoints, width)
  IN IF found # "none" THEN found
     ELSE IF sortedBreakpoints # << >> THEN sortedBreakpoints[1].name ELSE "xs"

calculateBreakpoint(config, width) ==
  LET allBreakpoints == Spread(config.breakpoints, config.customBreakpoints)
      sortedBreakpoints == SortBy(allBreakpoints, TRUE)
      found == FirstAtMost(sortedBreakpoints, width)
      ascending == SortBy(allBreakpoints, FALSE)
  IN IF found # "none" THEN found
     ELSE IF ascending # << >> THEN ascending[1].name ELSE "xs"

\* this.config.breakpoints.<n> ?? DEFAULT_BREAKPOINTS.<n>
ThresholdOf(config, n) ==
  IF n \in Names(config.breakpoints)
  THEN config.breakpoints[Lookup(config.breakpoints, n)].value
  ELSE DEFAULT_BREAKPOINTS[Lookup(DEFAULT_BREAKPOINTS, n)].value

calculateIsMobile(config, width) == width < ThresholdOf(config, "md")

\* calculateIsTablet without its lower bound
calculateIsTablet_noLowerBound(config, width) ==
  width < ThresholdOf(config, "lg")

calculateIsTablet(config, width) ==
  width >= ThresholdOf(config, "md") /\ width < ThresholdOf(config, "lg")

detectTouch(w) == w.ontouchstart \/ w.maxTouchPoints > 0

\* calculateState taking a square viewport for landscape
calculateState_squareLandscape(config, w) ==
  LET width == w.innerWidth
      height == w.innerHeight
      isMobile == calculateIsMobile(config, width)
      isTablet == calculateIsTablet(config, width)
  IN [ width |-> width,
       height |-> height,
       breakpoint |-> calculateBreakpoint(config, width),
       isMobile |-> isMobile,
       isTablet |-> isTablet,
       isDesktop |-> ~isMobile /\ ~isTablet,
       isTouch |-> IF config.enableTouch THEN detectTouch(w) ELSE FALSE,
       orientation |-> IF width >= height THEN "landscape" ELSE "portrait",
       pixelRatio |-> IF config.enableHighDPI
                      THEN (IF w.devicePixelRatio # 0 THEN w.devicePixelRatio ELSE One)
                      ELSE One,
       availableWidth |-> IF w.hasScreen THEN w.availWidth ELSE width,
       availableHeight |-> IF w.hasScreen THEN w.availHeight ELSE height ]

calculateState(config, w) ==
  LET width == w.innerWidth
      height == w.innerHeight
      isMobile == calculateIsMobile(config, width)
      isTablet == calculateIsTablet(config, width)
  IN [ width |-> width,
       height |-> height,
       breakpoint |-> calculateBreakpoint(config, width),
       isMobile |-> isMobile,
       isTablet |-> isTablet,
       isDesktop |-> ~isMobile /\ ~isTablet,
       isTouch |-> IF config.enableTouch THEN detectTouch(w) ELSE FALSE,
       orientation |-> IF width > height THEN "landscape" ELSE "portrait",
       pixelRatio |-> IF config.enableHighDPI
                      THEN (IF w.devicePixelRatio # 0 THEN w.devicePixelRatio ELSE One)
                      ELSE One,
       availableWidth |-> IF w.hasScreen THEN w.availWidth ELSE width,
       availableHeight |-> IF w.hasScreen THEN w.availHeight ELSE height ]


\* new ViewportCore(): this.config = { ...DEFAULT_CONFIG, ...{} }
config == DEFAULT_CONFIG

\* const newState = this.calculateState(), for every window the engine may find
WindowStates == { calculateState(config, w) : w \in Windows }

\* ------------------------------------------------------------------ state
VARIABLES
  nativeListeners,   \* the registrations the host holds for engine callbacks
  hostFrames,        \* animation frame requests pending in the host
  debounceTimer,     \* the timer of debouncedUpdate (timeoutId) is pending
  orientationTimers, \* pending 100ms settle timers
  isDestroyed,       \* ViewportCore.isDestroyed
  currentState,      \* ViewportCore.currentState
  resizeObserver,    \* ViewportCore.resizeObserver !== null
  mediaQueryLists,   \* keys of ViewportCore.mediaQueryLists
  listeners,         \* EventManager.listeners
  rafId,             \* EventManager.rafId
  rafCallbacks,      \* EventManager.rafCallbacks
  pc,                \* "idle", "frame" (between the callbacks of a frame),
                     \* "emit" (in a forEach of emit), "done" (callback returning)
  frameCallbacks,    \* callbacks of the running frame that have not run yet
  emitQueue,         \* emit calls updateState still has to make
  cur,               \* the emit call in progress
  iter,              \* handlers the running forEach has yet to visit
  attached,          \* the Set being iterated is still listeners.get(cur.kind)
  previousState,     \* local previousState of the last updateState
  lastState,         \* history: the last state calculateState returned
  cycleLog,          \* history: emit calls and handler invocations of the cycle
  recomputations,    \* history: recomputations run by the current host callback
  ret,               \* history: result of the state read made by the last step
  standalone         \* the components used on their own, one field for each

host == << nativeListeners, hostFrames, debounceTimer, orientationTimers >>
core == << isDestroyed, currentState, resizeObserver, mediaQueryLists >>
manager == << listeners, rafId, rafCallbacks >>
control == << pc, frameCallbacks, emitQueue, cur, iter, attached >>
history == << previousState, lastState, cycleLog, recomputations, ret >>
engine == << host, core, manager, control, history >>

\* an EventManager used on its own: subscriptions
subscription == standalone.subscription
\* the functions on() has returned, with their call counts
unsubscribes == subscription.unsubscribes
\* history: when each handler was registered, 0: it is not
registered == subscription.registered
\* history: the number of on() calls made
clock == subscription.clock
\* history: the last call made and the registry before it
lastCall == subscription.lastCall

\* an EventManager used on its own: scheduleRAF
batching == standalone.batching
\* history: the callbacks passed since the last frame fired
scheduled == batching.scheduled
\* history: requestAnimationFrame calls made for them
requests == batching.requests
\* history: how often the last frame ran each callback
executed == batching.executed

\* a function debounce() returned
debouncing == standalone.debouncing
\* the host's time
now == debouncing.now
\* the delay given to debounce
delay == debouncing.delay
\* the host's pending timers set by the function
timers == debouncing.timers
\* the closure's timeoutId
timeoutId == debouncing.timeoutId
\* history: the calls of the burst, with their time
calls == debouncing.calls
\* history: the invocations of func since the burst began
fires == debouncing.fires

\* the classification of a width under a configuration
classification == standalone.classification
\* the config object given to the constructor
given == classification.given
\* window.innerWidth
width == classification.width
\* the state calculateState returned for them
result == classification.result
\* the breakpointSystem the instance around the engine was configured with
system == classification.system

\* a ViewportCore followed from its construction, in a host that has a
\* window or has none
instance == standalone.instance
\* the constructor has run
constructed == instance.constructed
\* typeof window !== 'undefined'
hasWindow == instance.hasWindow
\* enableTouch and enableHighDPI of the config
options == instance.options
\* the registrations the constructor made with the host
attachedTo == instance.attachedTo
\* this.currentState
ownState == instance.ownState
\* history: previousState of the last updateState that passed its guard
priorState == instance.priorState
\* history: the emit calls that updateState made
emitted == instance.emitted
\* history: what the last getState() returned
answer == instance.answer

\* a BreakpointManager and the queries made of it
queries == standalone.queries
\* new BreakpointManager(system) has run
made == queries.made
\* this.breakpointSystem
breakpointSystem == queries.breakpointSystem
\* window.innerWidth
innerWidth == queries.innerWidth
\* this.currentBreakpoint
currentBreakpoint == queries.currentBreakpoint
\* history: what the constructor reported about the system it was given
reported == queries.reported
\* history: the last query and its result
query == queries.query

\* the module state of the main class file and the instances it has made
singleton == standalone.singleton
\* let globalInstance: the index of the instance, 0 for null
globalInstance == singleton.globalInstance
\* the BreakpointJSInstanceImpl objects made, in the order of their making
instances == singleton.instances
\* history: the instance getBreakpointJS returned last, 0 once the global
\* instance has been reset since
held == singleton.held
\* history: the last call, what it returned and what it found
lastRequest == singleton.lastRequest

\* an engine in a host whose clock is followed: rotations, window resizes and
\* the timers they set
rotation == standalone.rotation
\* new ViewportCore({ debounceDelay }) has run
built == rotation.built
\* this.config.debounceDelay
debounceDelay == rotation.debounceDelay
\* the host's time, in ms
time == rotation.time
\* the host's pending timers
hostTimers == rotation.pending
\* timeoutId of debouncedUpdate
debounceId == rotation.debounceId
\* the timers set so far
issued == rotation.issued
\* this.isDestroyed
gone == rotation.gone
\* this.currentState, what getState() returns
shown == rotation.shown
\* history: the last native event or timer callback and what it did
step == rotation.step

\* an EventManager used on its own: the bookkeeping of its registry
registry == standalone.registry
\* history: the on(event, callback) calls made since the callback was
\* registered for the event and not removed, 0 when it is not registered
onCalls == registry.onCalls
\* the pairs for which the caller holds a function on() returned
handedOut == registry.returned
\* history: the last call, the count of its pair before it and what an
\* emission delivered
lastOp == registry.lastOp

\* an EventManager used on its own: callbacks that call scheduleRAF
reentry == standalone.reentry
\* callbacks: the Set the running frame copied from rafCallbacks
copied == reentry.copied
\* the members of the copy the forEach has yet to visit
running == reentry.running
\* history: how often the frame has run each callback
ranNow == reentry.ranNow
\* history: the callbacks that threw in the frame
threw == reentry.threw
\* history: the callbacks passed to scheduleRAF by a callback of the frame
asked == reentry.asked
\* history: the callbacks passed to scheduleRAF since the last frame began
owed == reentry.owed
\* history: the callbacks of the frame that a callback of the frame before
\* had passed and that frame did not hold
carried == reentry.carried

\* a BreakpointJSInstanceImpl followed through its construction
creation == standalone.creation
\* the feature toggles of the config given to createBreakpointJS
toggles == creation.toggles
\* typeof document !== 'undefined'
hasDocument == creation.hasDocument
\* how the constructor ended: "none" before it ran, "constructed", "TypeError"
outcome == creation.outcome
\* the subscriptions the CSS integration made
cssSubscriptions == creation.cssSubscriptions
\* how the last css.generateCustomProperties() ended
generated == creation.generated
\* destroy() has returned
torndown == creation.torndown

\* a BreakpointManager and the watchers of its breakpoints
watching == standalone.watching
\* new BreakpointManager(system) has run
watched == watching.watched
\* this.breakpointSystem.breakpoints
watchedTable == watching.table
\* window.innerWidth
seenWidth == watching.seenWidth
\* this.watchers, as pairs << name, callback >>
watchers == watching.watchers
\* the 'change' events the host has yet to deliver to the media query lists
changes == watching.changes
\* history: the last call or event and what it did
lastWatch == watching.lastWatch

\* an instance: its ViewportCore and its BreakpointManager side by side
pair == standalone.pair
\* new BreakpointJSInstanceImpl(config) has run
assembled == pair.assembled
\* config.breakpointSystem and config.customBreakpoints
pairSystem == pair.breakpointSystem
pairCustom == pair.customBreakpoints
\* window.innerWidth
pairWidth == pair.innerWidth
\* viewport.currentState.breakpoint
stateBreakpoint == pair.stateBreakpoint
\* breakpoints.currentBreakpoint
managerBreakpoint == pair.managerBreakpoint
\* the engine has a resize to process; the manager has 'change' events to process
resizePending == pair.resizePending
changePending == pair.changePending

vars == << engine, standalone >>

NoSet == [has |-> FALSE, elems |-> << >>]
NoEmit == [kind |-> "none", args |-> << >>]
NoRet == [op |-> "none", state |-> Null, proj |-> "", threw |-> FALSE, from |-> "none"]

Elems(s) == { s[i] : i \in 1..Len(s) }

RECURSIVE Without(_, _)
Without(s, x) ==
  IF s = << >> THEN << >>
  ELSE IF Head(s) = x THEN Without(Tail(s), x)
       ELSE << Head(s) >> \o Without(Tail(s), x)

ListenerTotal(L) == Len(L["resize"].elems) + Len(L["breakpointchange"].elems)
                    + Len(L["orientationchange"].elems) + Len(L["touchchange"].elems)

\* ------------------------------------------------------------ EventManager
\* on keeping every callback it is given, as an array would
on_addsAgain(L, event, callback) ==
  LET set == IF L[event].has THEN L[event].elems ELSE << >>
  IN [L EXCEPT ![event] = [has |-> TRUE, elems |-> Append(set, callback)]]

\* on with the callback put ahead of the members of the Set
on_prepends(L, event, callback) ==
  LET set == IF L[event].has THEN L[event].elems ELSE << >>
  IN [L EXCEPT ![event] =
        [has |-> TRUE,
         elems |-> IF callback \in Elems(set) THEN set ELSE << callback >> \o set]]

\* on(event, callback): Set.add keeps insertion order and ignores a member
on(L, event, callback) ==
  LET set == IF L[event].has THEN L[event].elems ELSE << >>
  IN [L EXCEPT ![event] =
        [has |-> TRUE,
         elems |-> IF callback \in Elems(set) THEN set ELSE Append(set, callback)]]

\* off leaving the emptied Set in the map
off_keepsEmptySet(L, event, callback) ==
  IF ~L[event].has THEN L
  ELSE [L EXCEPT ![event] = [has |-> TRUE, elems |-> Without(L[event].elems, callback)]]

\* off deleting the map entry of the event whatever its Set still holds
off_dropsEvent(L, event, callback) ==
  IF ~L[event].has THEN L
  ELSE [L EXCEPT ![event] = NoSet]

\* off(event, callback): the map entry goes when its Set becomes empty
off(L, event, callback) ==
  IF ~L[event].has THEN L
  ELSE LET rest == Without(L[event].elems, callback)
       IN IF rest = << >> THEN [L EXCEPT ![event] = NoSet]
          ELSE [L EXCEPT ![event] = [has |-> TRUE, elems |-> rest]]

\* getListenerCount(event): this.listeners.get(event)?.size ?? 0
getListenerCount(L, event) == IF L[event].has THEN Len(L[event].elems) ELSE 0

\* hasListeners(): this.listeners.size > 0
hasListeners(L) == \E event \in EventTypes : L[event].has

EmitEntry(e, snap) ==
  [t |-> "emit", kind |-> e.kind, args |-> e.args, h |-> "", op |-> "emit", snap |-> snap]

CallEntry(e, h, op) ==
  [t |-> "call", kind |-> e.kind, args |-> e.args, h |-> h, op |-> op, snap |-> << >>]

\* emit(event, ...args) for each call of the queue in turn, up to the first
\* one that has a handler to invoke: the handlers run in steps of their own.
RECURSIVE emit(_, _, _)
emit(queue, log, L) ==
  IF queue = << >>
  THEN [active |-> FALSE, cur |-> NoEmit, iter |-> << >>, rest |-> << >>, log |-> log]
  ELSE LET e == Head(queue)
           eventListeners == IF L[e.kind].has THEN L[e.kind].elems ELSE << >>
           log2 == Append(log, EmitEntry(e, eventListeners))
       IN IF eventListeners # << >>
          THEN [active |-> TRUE, cur |-> e, iter |-> eventListeners,
                rest |-> Tail(queue), log |-> log2]
          ELSE emit(Tail(queue), log2, L)

\* emit without its try/catch: a handler's exception leaves the forEach
emitCatches_rethrows == FALSE

\* try { callback(...args) } catch (error) { console.error(...) }
emitCatches == TRUE

\* "a fresh arrow function": an identity no member of the set has
NewClosure(set) == CHOOSE n \in 1..(Cardinality(set) + 1) : n \notin set

\* scheduleRAF requesting a frame whether or not one is pending
scheduleRAFOf_alwaysRequests(callback) ==
  /\ rafCallbacks' = rafCallbacks \cup { callback }
  /\ rafId' = "frame" /\ hostFrames' = hostFrames + 1

\* scheduleRAF(callback), for a callback of any identity
scheduleRAFOf(callback) ==
  /\ rafCallbacks' = rafCallbacks \cup { callback }
  /\ IF rafId = "null"
     THEN rafId' = "frame" /\ hostFrames' = hostFrames + 1
     ELSE UNCHANGED << rafId, hostFrames >>

\* scheduleRAF(() => this.updateState()), as the engine's adapters call it
scheduleRAF == scheduleRAFOf(NewClosure(rafCallbacks))

\* the returned function without its clearTimeout
debounced_keepsTimer(pending, id, timer) == pending \cup { timer }

\* the function debounce() returns, on the host's pending timers:
\* clearTimeout(timeoutId); timeoutId = window.setTimeout(() => func(...args), delay)
debounced(pending, id, timer) == (pending \ { id }) \cup { timer }

\* the function debounce() returns: clearTimeout(timeoutId); timeoutId = setTimeout(...)
debouncedUpdate == debounceTimer' = TRUE

\* ------------------------------------------------------------ ViewportCore
\* emitChangeEvents with the touch test comparing the orientation
emitChangeEvents_touchByOrientation(previous, newState) ==
  (IF previous.breakpoint # newState.breakpoint
   THEN << [kind |-> "breakpointchange",
            args |-> << newState.breakpoint, previous.breakpoint >>] >>
   ELSE << >>)
  \o (IF previous.orientation # newState.orientation
      THEN << [kind |-> "orientationchange", args |-> << newState.orientation >>] >>
      ELSE << >>)
  \o (IF previous.orientation # newState.orientation
      THEN << [kind |-> "touchchange", args |-> << newState.isTouch >>] >>
      ELSE << >>)

emitChangeEvents(previous, newState) ==
  (IF previous.breakpoint # newState.breakpoint
   THEN << [kind |-> "breakpointchange",
            args |-> << newState.breakpoint, previous.breakpoint >>] >>
   ELSE << >>)
  \o (IF previous.orientation # newState.orientation
      THEN << [kind |-> "orientationchange", args |-> << newState.orientation >>] >>
      ELSE << >>)
  \o (IF previous.isTouch # newState.isTouch
      THEN << [kind |-> "touchchange", args |-> << newState.isTouch >>] >>
      ELSE << >>)

\* updateState emitting 'resize' ahead of the change events
updateStateEmits_resizeFirst(previous, newState) ==
  << [kind |-> "resize", args |-> << newState >>] >>
  \o (IF previous # Null THEN emitChangeEvents(previous, newState) ELSE << >>)

\* updateState comparing with the previous state whether or not there is one
updateStateEmits_alwaysCompares(previous, newState) ==
  emitChangeEvents(previous, newState)
  \o << [kind |-> "resize", args |-> << newState >>] >>

\* the emit calls of updateState, in the order the code makes them
updateStateEmits(previous, newState) ==
  (IF previous # Null THEN emitChangeEvents(previous, newState) ELSE << >>)
  \o << [kind |-> "resize", args |-> << newState >>] >>

\* where control is once updateState has returned: at the next callback of
\* the frame, or at the return of the host callback
AfterCycle(remaining) == IF remaining # {} THEN "frame" ELSE "done"

\* updateState without the isDestroyed test of its guard
updateState_unguarded(remaining, count) ==
  /\ frameCallbacks' = remaining
  /\ ret' = NoRet
  /\ UNCHANGED << listeners, isDestroyed, resizeObserver, mediaQueryLists >>
  /\ \E newState \in WindowStates :
       LET r == emit(updateStateEmits(currentState, newState), << >>, listeners)
       IN /\ previousState' = currentState
          /\ currentState' = newState
          /\ lastState' = newState
          /\ recomputations' = count + 1
          /\ cycleLog' = r.log
          /\ emitQueue' = r.rest /\ cur' = r.cur /\ iter' = r.iter
          /\ attached' = r.active
          /\ pc' = IF r.active THEN "emit" ELSE AfterCycle(remaining)

\* updateState(), called by a host callback; remaining are the callbacks of
\* the same frame that run after it, count the recomputations before it
updateState(remaining, count) ==
  /\ frameCallbacks' = remaining
  /\ ret' = NoRet
  /\ UNCHANGED << listeners, isDestroyed, resizeObserver, mediaQueryLists >>
  /\ IF isDestroyed
     THEN /\ UNCHANGED << currentState, lastState >>
          /\ recomputations' = count
          /\ previousState' = Null
          /\ cycleLog' = << >>
          /\ emitQueue' = << >> /\ cur' = NoEmit /\ iter' = << >> /\ attached' = FALSE
          /\ pc' = AfterCycle(remaining)
     ELSE \E newState \in WindowStates :
          LET r == emit(updateStateEmits(currentState, newState), << >>, listeners)
          IN /\ previousState' = currentState
             /\ currentState' = newState
             /\ lastState' = newState
             /\ recomputations' = count + 1
             /\ cycleLog' = r.log
             /\ emitQueue' = r.rest /\ cur' = r.cur /\ iter' = r.iter
             /\ attached' = r.active
             /\ pc' = IF r.active THEN "emit" ELSE AfterCycle(remaining)

\* destroy()
destroy ==
  /\ isDestroyed' = TRUE
  /\ resizeObserver' = FALSE
  /\ nativeListeners' = IF resizeObserver
                        THEN nativeListeners \ { << "ResizeObserver", "documentElement" >> }
                        ELSE nativeListeners
  /\ mediaQueryLists' = {}
  /\ listeners' = [k \in EventTypes |-> NoSet]
  /\ rafCallbacks' = {}
  /\ rafId' = "null"
  /\ hostFrames' = IF rafId # "null" THEN hostFrames - 1 ELSE hostFrames
  /\ currentState' = Null
  /\ UNCHANGED << debounceTimer, orientationTimers, lastState >>


\* setupEventListeners registering the window 'resize' listener beside the
\* ResizeObserver
setupEventListeners_bothPaths(w) ==
  (IF w.ResizeObserver
   THEN { << "ResizeObserver", "documentElement" >>, << "window", "resize" >> }
   ELSE { << "window", "resize" >> })
  \cup { << "window", "orientationchange" >> }
  \cup (IF w.visualViewport THEN { << "visualViewport", "resize" >> } ELSE {})

\* setupEventListeners(): the registrations made with the host
setupEventListeners(w) ==
  (IF w.ResizeObserver
   THEN { << "ResizeObserver", "documentElement" >> }
   ELSE { << "window", "resize" >> })
  \cup { << "window", "orientationchange" >> }
  \cup (IF w.visualViewport THEN { << "visualViewport", "resize" >> } ELSE {})

\* setupMediaQueries(): one 'change' listener per entry of the merged table
setupMediaQueries(cfg) ==
  { << "mql", n >> : n \in Names(Spread(cfg.breakpoints, cfg.customBreakpoints)) }

\* --------------------------------------------- EventManager on its own
\* no call has been made on the registry from outside the engine
NoCall == [name |-> "none", event |-> "", callback |-> "", nth |-> 0,
           before |-> [k \in EventTypes |-> NoSet], delivered |-> << >>]

NoSubscription ==
  [ unsubscribes |-> << >>,
    registered |-> [k \in EventTypes |-> [h \in Handlers |-> 0]],
    clock |-> 0,
    lastCall |-> NoCall ]

NoExecution == [done |-> FALSE, count |-> << >>]

NoBatching == [scheduled |-> << >>, requests |-> 0, executed |-> NoExecution]

\* let timeoutId: number | undefined
NoTimer == [id |-> 0, due |-> 0, arg |-> ""]

NoDebouncing ==
  [ now |-> 0, delay |-> 0, timers |-> {}, timeoutId |-> NoTimer,
    calls |-> << >>, fires |-> << >> ]

\* new ViewportCore(): config = {}
NoConfig == [hasBreakpoints |-> FALSE, breakpoints |-> << >>,
             hasCustomBreakpoints |-> FALSE, customBreakpoints |-> << >>]

\* system: the breakpointSystem of the BreakpointJSInstanceImpl that made the
\* engine, "none" for an engine made by new ViewportCore
NoClassification ==
  [given |-> NoConfig, system |-> "none", width |-> 0, result |-> Null]

\* no getState() call has been made
NoAnswer == [op |-> "none", value |-> Null]

\* before new ViewportCore(config)
NoInstance ==
  [ constructed |-> FALSE, hasWindow |-> TRUE,
    options |-> [enableTouch |-> TRUE, enableHighDPI |-> TRUE],
    attachedTo |-> {}, ownState |-> Null, priorState |-> Null,
    emitted |-> << >>, answer |-> NoAnswer ]

NoQuery == [op |-> "none", names |-> << >>, result |-> "none"]

\* before new BreakpointManager(system)
NoQueries ==
  [ made |-> FALSE,
    breakpointSystem |-> [name |-> "", unit |-> "px", breakpoints |-> << >>],
    innerWidth |-> 0, currentBreakpoint |-> "null",
    reported |-> << >>, query |-> NoQuery ]

NoRequest == [op |-> "none", returned |-> 0, found |-> 0, made |-> 0, held |-> 0]

\* let globalInstance: BreakpointJSInstance | null = null
NoSingleton ==
  [globalInstance |-> 0, instances |-> << >>, held |-> 0, lastRequest |-> NoRequest]

\* no timer has been set by debouncedUpdate
NoPending == [id |-> 0, kind |-> "none", setAt |-> 0, due |-> 0]

NoStep == [op |-> "none", kind |-> "none", waited |-> 0, ran |-> 0,
           before |-> Null, emits |-> << >>]

\* before new ViewportCore({ debounceDelay })
NoRotation ==
  [ built |-> FALSE, debounceDelay |-> 100, time |-> 0, pending |-> {},
    debounceId |-> NoPending, issued |-> 0, gone |-> FALSE, shown |-> Null,
    step |-> NoStep ]

NoOp == [name |-> "none", event |-> "", callback |-> "", had |-> 0, delivered |-> << >>]

\* a new EventManager, on which nothing was called yet
NoRegistry ==
  [ onCalls |-> [k \in EventTypes |-> [h \in Handlers |-> 0]],
    returned |-> {}, lastOp |-> NoOp ]

\* no frame has fired
NoReentry ==
  [ copied |-> {}, running |-> {}, ranNow |-> [cb \in {1, 2, 3} |-> 0],
    threw |-> {}, asked |-> {}, owed |-> {}, carried |-> {} ]

\* before createBreakpointJS(config)
NoCreation ==
  [ toggles |-> [enableSafeArea |-> TRUE, enableA11y |-> TRUE,
                 enableDeviceDetection |-> TRUE, autoCSSVars |-> TRUE,
                 enableContainerQueries |-> FALSE],
    hasDocument |-> TRUE, outcome |-> "none", cssSubscriptions |-> {},
    generated |-> "none", torndown |-> FALSE ]

NoWatch == [op |-> "none", name |-> "", callback |-> "", warned |-> FALSE,
            unsubscribe |-> "none", invoked |-> {}, before |-> {}]

\* before new BreakpointManager(system)
NoWatching ==
  [ watched |-> FALSE, table |-> << >>, seenWidth |-> 0, watchers |-> {},
    changes |-> {}, lastWatch |-> NoWatch ]

\* before new BreakpointJSInstanceImpl(config)
NoPair ==
  [ assembled |-> FALSE, breakpointSystem |-> "bootstrap", customBreakpoints |-> << >>,
    innerWidth |-> 0, stateBreakpoint |-> "", managerBreakpoint |-> "",
    resizePending |-> FALSE, changePending |-> FALSE ]

\* one component takes a step, the others are left alone
Alone(component, value) ==
  standalone' = [standalone EXCEPT ![component] = value]

\* ------------------------------------------------------------------- Init
\* The state new ViewportCore() leaves: listeners set up, the first state
\* computed and its 'resize' emitted to an empty registry.
Init ==
  /\ \E api \in HostAPIs :
       /\ nativeListeners = setupEventListeners(api) \cup setupMediaQueries(config)
       /\ resizeObserver = api.ResizeObserver
  /\ hostFrames = 0
  /\ debounceTimer = FALSE
  /\ orientationTimers = 0
  /\ isDestroyed = FALSE
  /\ currentState \in WindowStates
  /\ mediaQueryLists = Names(Spread(config.breakpoints, config.customBreakpoints))
  /\ listeners = [k \in EventTypes |-> NoSet]
  /\ rafId = "null"
  /\ rafCallbacks = {}
  /\ pc = "idle"
  /\ frameCallbacks = {}
  /\ emitQueue = << >>
  /\ cur = NoEmit
  /\ iter = << >>
  /\ attached = FALSE
  /\ previousState = Null
  /\ lastState = currentState
  /\ cycleLog = emit(updateStateEmits(Null, currentState), << >>, listeners).log
  /\ recomputations = 1
  /\ ret = NoRet
  /\ standalone = [ subscription |-> NoSubscription,
                    batching |-> NoBatching,
                    debouncing |-> NoDebouncing,
                    classification |-> NoClassification,
                    instance |-> NoInstance,
                    singleton |-> NoSingleton,
                    queries |-> NoQueries,
                    rotation |-> NoRotation,
                    registry |-> NoRegistry,
                    reentry |-> NoReentry,
                    creation |-> NoCreation,
                    watching |-> NoWatching,
                    pair |-> NoPair ]

\* What the history variables record is dropped by the next step that is not
\* part of the cycle and not a state read.
Forget ==
  /\ previousState' = Null
  /\ cycleLog' = << >>
  /\ recomputations' = 0
  /\ ret' = NoRet

\* ------------------------------------------------- host: native signals
\* new ResizeObserver(() => this.eventManager.scheduleRAF(() => this.updateState()))
ResizeObserverCallback ==
  /\ UNCHANGED standalone
  /\ pc = "idle"
  /\ << "ResizeObserver", "documentElement" >> \in nativeListeners
  /\ Cardinality(rafCallbacks) < MaxBurst
  /\ scheduleRAF
  /\ Forget
  /\ UNCHANGED << nativeListeners, debounceTimer, orientationTimers,
                  core, listeners, control, lastState >>

\* mql.addEventListener('change', () => this.eventManager.scheduleRAF(...))
MediaQueryChange ==
  /\ UNCHANGED standalone
  /\ pc = "idle"
  /\ \E n \in Names(DEFAULT_BREAKPOINTS) : << "mql", n >> \in nativeListeners
  /\ Cardinality(rafCallbacks) < MaxBurst
  /\ scheduleRAF
  /\ Forget
  /\ UNCHANGED << nativeListeners, debounceTimer, orientationTimers,
                  core, listeners, control, lastState >>

\* window.addEventListener('resize', debouncedUpdate)
WindowResize ==
  /\ UNCHANGED standalone
  /\ pc = "idle"
  /\ << "window", "resize" >> \in nativeListeners
  /\ debouncedUpdate
  /\ Forget
  /\ UNCHANGED << nativeListeners, hostFrames, orientationTimers,
                  core, manager, control, lastState >>

\* window.visualViewport.addEventListener('resize', debouncedUpdate)
VisualViewportResize ==
  /\ UNCHANGED standalone
  /\ pc = "idle"
  /\ << "visualViewport", "resize" >> \in nativeListeners
  /\ debouncedUpdate
  /\ Forget
  /\ UNCHANGED << nativeListeners, hostFrames, orientationTimers,
                  core, manager, control, lastState >>

\* window 'orientationchange': setTimeout(() => this.updateState(), 100)
OrientationChange ==
  /\ UNCHANGED standalone
  /\ pc = "idle"
  /\ << "window", "orientationchange" >> \in nativeListeners
  /\ orientationTimers < MaxTimers
  /\ orientationTimers' = orientationTimers + 1
  /\ Forget
  /\ UNCHANGED << nativeListeners, hostFrames, debounceTimer,
                  core, manager, control, lastState >>

\* ---------------------------------------- host: frames and timers expire
\* the closure scheduleRAF gave requestAnimationFrame, up to its forEach
AnimationFrame ==
  /\ UNCHANGED standalone
  /\ pc = "idle"
  /\ hostFrames > 0
  /\ hostFrames' = hostFrames - 1
  /\ frameCallbacks' = rafCallbacks
  /\ rafCallbacks' = {}
  /\ rafId' = "null"
  /\ pc' = AfterCycle(rafCallbacks)
  /\ Forget
  /\ UNCHANGED << nativeListeners, debounceTimer, orientationTimers,
                  core, listeners, emitQueue, cur, iter, attached, lastState >>

\* callbacks.forEach(cb => { try { cb() } catch ... }): the next cb
FrameCallback ==
  /\ UNCHANGED standalone
  /\ pc = "frame"
  /\ LET cb == CHOOSE c \in frameCallbacks : \A d \in frameCallbacks : c <= d
     IN updateState(frameCallbacks \ {cb}, recomputations)
  /\ UNCHANGED << host, rafId, rafCallbacks >>

\* the timer of debouncedUpdate expires: func(...args)
DebounceTimer ==
  /\ UNCHANGED standalone
  /\ pc = "idle"
  /\ debounceTimer
  /\ debounceTimer' = FALSE
  /\ updateState({}, 0)
  /\ UNCHANGED << nativeListeners, hostFrames, orientationTimers, rafId, rafCallbacks >>

\* a settle timer expires: this.updateState()
OrientationTimer ==
  /\ UNCHANGED standalone
  /\ pc = "idle"
  /\ orientationTimers > 0
  /\ orientationTimers' = orientationTimers - 1
  /\ updateState({}, 0)
  /\ UNCHANGED << nativeListeners, hostFrames, debounceTimer, rafId, rafCallbacks >>


\* the host callback returns to the event loop
CallbackReturns ==
  /\ UNCHANGED standalone
  /\ pc = "done"
  /\ pc' = "idle"
  /\ Forget
  /\ UNCHANGED << host, core, manager, frameCallbacks, emitQueue, cur, iter,
                  attached, lastState >>

\* ------------------------------------------------- API calls from outside
\* on(event, callback), from code that runs outside every engine callback
On ==
  /\ UNCHANGED standalone
  /\ pc = "idle"
  /\ \E k \in EventTypes, h \in Handlers :
       /\ ListenerTotal(on(listeners, k, h)) <= MaxListeners
       /\ listeners' = on(listeners, k, h)
  /\ Forget
  /\ UNCHANGED << host, core, rafId, rafCallbacks, control, lastState >>

\* off(event, callback), also what the function on() returned does
Off ==
  /\ UNCHANGED standalone
  /\ pc = "idle"
  /\ \E k \in EventTypes, h \in Handlers : listeners' = off(listeners, k, h)
  /\ Forget
  /\ UNCHANGED << host, core, rafId, rafCallbacks, control, lastState >>

\* getState(): if (!this.currentState) this.updateState(); return this.currentState!
\* With a window present currentState is null only once the engine is
\* destroyed, and then updateState returns at its guard.
getState == currentState

ToStr(b) == IF b THEN "true" ELSE "false"

Projections == {"isMobile", "isTablet", "isDesktop", "isTouch", "getBreakpoint"}

\* this.getState().<field>
Project(p, state) ==
  IF state = Null THEN "TypeError"
  ELSE CASE p = "isMobile" -> ToStr(state.isMobile)
         [] p = "isTablet" -> ToStr(state.isTablet)
         [] p = "isDesktop" -> ToStr(state.isDesktop)
         [] p = "isTouch" -> ToStr(state.isTouch)
         [] p = "getBreakpoint" -> state.breakpoint

GetState ==
  /\ UNCHANGED standalone
  /\ pc = "idle"
  /\ currentState # Null \/ isDestroyed
  /\ ret' = [op |-> "getState", state |-> getState, proj |-> "",
             threw |-> FALSE, from |-> "outside"]
  /\ previousState' = Null /\ cycleLog' = << >> /\ recomputations' = 0
  /\ UNCHANGED << host, core, manager, control, lastState >>

\* isMobile(), isTablet(), isDesktop(), isTouch(), getBreakpoint()
Projection ==
  /\ UNCHANGED standalone
  /\ pc = "idle"
  /\ currentState # Null \/ isDestroyed
  /\ \E p \in Projections :
       ret' = [op |-> p, state |-> getState, proj |-> Project(p, getState),
               threw |-> (getState = Null), from |-> "outside"]
  /\ previousState' = Null /\ cycleLog' = << >> /\ recomputations' = 0
  /\ UNCHANGED << host, core, manager, control, lastState >>

\* destroy(), called outside every engine callback
Destroy ==
  /\ UNCHANGED standalone
  /\ pc = "idle"
  /\ IF isDestroyed
     THEN UNCHANGED << host, core, manager, lastState >>
     ELSE destroy
  /\ Forget
  /\ UNCHANGED control

\* ------------------------------------------- handlers run by an emission
\* After the handler at the head of iter has run: the forEach goes on with
\* the handlers left (it), then updateState makes its remaining emit calls
\* against the registry the handler left (L).  aborts: the handler's
\* exception leaves emit and updateState.
Resume(op, L, it, att, aborts) ==
  LET log1 == Append(cycleLog, CallEntry(cur, Head(iter), op))
  IN /\ UNCHANGED << frameCallbacks, previousState, recomputations >>
     /\ IF aborts
        THEN /\ cycleLog' = log1
             /\ emitQueue' = << >> /\ cur' = NoEmit /\ iter' = << >> /\ attached' = FALSE
             /\ pc' = AfterCycle(frameCallbacks)
        ELSE IF it # << >>
        THEN /\ cycleLog' = log1
             /\ cur' = cur /\ iter' = it /\ attached' = att
             /\ UNCHANGED emitQueue
             /\ pc' = "emit"
        ELSE LET r == emit(emitQueue, log1, L)
             IN /\ cycleLog' = r.log
                /\ emitQueue' = r.rest /\ cur' = r.cur /\ iter' = r.iter
                /\ attached' = r.active
                /\ pc' = IF r.active THEN "emit" ELSE AfterCycle(frameCallbacks)

HandlerReturns ==
  /\ UNCHANGED standalone
  /\ pc = "emit"
  /\ Resume("return", listeners, Tail(iter), attached, FALSE)
  /\ ret' = NoRet
  /\ UNCHANGED << host, core, manager, lastState >>

HandlerThrows ==
  /\ UNCHANGED standalone
  /\ pc = "emit"
  /\ Resume("throw", listeners, Tail(iter), attached, ~emitCatches)
  /\ ret' = NoRet
  /\ UNCHANGED << host, core, manager, lastState >>

\* The handler registers g for kind k.  Set.prototype.forEach visits a value
\* added to the Set it iterates.
HandlerCallsOn ==
  /\ UNCHANGED standalone
  /\ pc = "emit"
  /\ \E k \in EventTypes, g \in Handlers :
       /\ ListenerTotal(on(listeners, k, g)) <= MaxListeners
       /\ listeners' = on(listeners, k, g)
       /\ Resume(IF on(listeners, k, g) = listeners THEN "return" ELSE "on",
                 on(listeners, k, g),
                 IF k = cur.kind /\ attached /\ g \notin Elems(listeners[k].elems)
                 THEN Append(Tail(iter), g) ELSE Tail(iter),
                 attached, FALSE)
  /\ ret' = NoRet
  /\ UNCHANGED << host, core, rafId, rafCallbacks, lastState >>

\* The handler removes g from kind k (off, or the function on() returned).
\* forEach does not visit a value deleted before its turn.
HandlerCallsOff ==
  /\ UNCHANGED standalone
  /\ pc = "emit"
  /\ \E k \in EventTypes, g \in Handlers :
       /\ listeners' = off(listeners, k, g)
       /\ Resume(IF off(listeners, k, g) = listeners THEN "return" ELSE "off",
                 off(listeners, k, g),
                 IF k = cur.kind /\ attached
                 THEN Without(Tail(iter), g) ELSE Tail(iter),
                 attached /\ ~(k = cur.kind /\ ~off(listeners, k, g)[k].has), FALSE)
  /\ ret' = NoRet
  /\ UNCHANGED << host, core, rafId, rafCallbacks, lastState >>

HandlerCallsGetState ==
  /\ UNCHANGED standalone
  /\ pc = "emit"
  /\ currentState # Null \/ isDestroyed
  /\ Resume("return", listeners, Tail(iter), attached, FALSE)
  /\ ret' = [op |-> "getState", state |-> getState, proj |-> "",
             threw |-> FALSE, from |-> cur.kind]
  /\ UNCHANGED << host, core, manager, lastState >>

\* The handler calls destroy(): listeners.clear() empties the map, the Set
\* the forEach iterates keeps its members.
HandlerCallsDestroy ==
  /\ UNCHANGED standalone
  /\ pc = "emit"
  /\ IF isDestroyed
     THEN UNCHANGED << host, core, manager, lastState >>
     ELSE destroy
  /\ Resume(IF isDestroyed THEN "return" ELSE "destroy",
            [k \in EventTypes |-> NoSet], Tail(iter), FALSE, FALSE)
  /\ ret' = NoRet

Next ==
  \/ ResizeObserverCallback
  \/ MediaQueryChange
  \/ WindowResize
  \/ VisualViewportResize
  \/ OrientationChange
  \/ AnimationFrame
  \/ FrameCallback
  \/ CallbackReturns
  \/ DebounceTimer
  \/ OrientationTimer
  \/ On
  \/ Off
  \/ GetState
  \/ Projection
  \/ Destroy
  \/ HandlerReturns
  \/ HandlerThrows
  \/ HandlerCallsOn
  \/ HandlerCallsOff
  \/ HandlerCallsGetState
  \/ HandlerCallsDestroy

Spec == Init /\ [][Next]_vars

\* The engine on a host with ResizeObserver whose recomputations are all
\* driven by animation frames (no debounced event and no rotation occurs).
InitFrame == Init /\ resizeObserver

NextFrame ==
  \/ ResizeObserverCallback
  \/ MediaQueryChange
  \/ AnimationFrame
  \/ FrameCallback
  \/ CallbackReturns
  \/ On
  \/ Off
  \/ GetState
  \/ Projection
  \/ Destroy
  \/ HandlerReturns
  \/ HandlerThrows
  \/ HandlerCallsOn
  \/ HandlerCallsOff
  \/ HandlerCallsGetState
  \/ HandlerCallsDestroy

SpecFrame == InitFrame /\ [][NextFrame]_vars

\* The engine on a host without ResizeObserver and without visualViewport:
\* its recomputations are driven by the debounce timer, by the settle timers
\* and by the frames that media query changes request.  Handlers return or
\* call destroy().
InitTimer == Init /\ ~resizeObserver

NextTimer ==
  \/ MediaQueryChange
  \/ WindowResize
  \/ OrientationChange
  \/ AnimationFrame
  \/ FrameCallback
  \/ CallbackReturns
  \/ DebounceTimer
  \/ OrientationTimer
  \/ On
  \/ Off
  \/ GetState
  \/ Destroy
  \/ HandlerReturns
  \/ HandlerCallsDestroy

SpecTimer == InitTimer /\ [][NextTimer]_vars

\* The engine while only the size of the window changes: the ResizeObserver
\* reports, or the window fires 'resize', on a host with either.  The host
\* runs every frame and every timer it has pending, and a callback that has
\* begun runs to its end.
InitPaths == Init

NextPaths ==
  \/ ResizeObserverCallback
  \/ WindowResize
  \/ AnimationFrame
  \/ FrameCallback
  \/ DebounceTimer
  \/ CallbackReturns
  \/ On
  \/ Destroy
  \/ HandlerReturns

SpecPaths ==
  /\ InitPaths /\ [][NextPaths]_vars
  /\ SF_vars(AnimationFrame) /\ SF_vars(DebounceTimer)
  /\ WF_vars(FrameCallback) /\ WF_vars(HandlerReturns) /\ WF_vars(CallbackReturns)

\* ------------------------------------------- EventManager: subscriptions
\* The EventManager of a constructed engine, called directly: on, off, the
\* functions on() returned, and emit to handlers that call nothing back.
SubscriptionKinds == {"resize", "breakpointchange"}

\* the engine fields these calls do not touch
besideListeners == << host, core, rafId, rafCallbacks, control, history >>

Call(name, event, callback, nth, delivered) ==
  [name |-> name, event |-> event, callback |-> callback, nth |-> nth,
   before |-> listeners, delivered |-> delivered]

\* emit(event): eventListeners.forEach(callback => callback(...args)), the
\* callbacks returning without a call to the manager
Delivered(L, event) == IF L[event].has THEN L[event].elems ELSE << >>

\* const unsubscribe = manager.on(event, callback)
ManagerOn ==
  /\ pc = "idle"
  /\ clock < MaxOn
  /\ \E event \in SubscriptionKinds, callback \in Handlers :
       /\ listeners' = on(listeners, event, callback)
       /\ Alone("subscription",
             [ unsubscribes |-> Append(unsubscribes,
                   [event |-> event, callback |-> callback, calls |-> 0]),
               registered |-> IF registered[event][callback] = 0
                              THEN [registered EXCEPT ![event][callback] = clock + 1]
                              ELSE registered,
               clock |-> clock + 1,
               lastCall |-> Call("on", event, callback, 0, << >>) ])
  /\ UNCHANGED besideListeners

\* manager.off(event, callback)
ManagerOff ==
  /\ pc = "idle"
  /\ \E event \in SubscriptionKinds, callback \in Handlers :
       /\ listeners' = off(listeners, event, callback)
       /\ Alone("subscription",
             [subscription EXCEPT
                !.registered = [registered EXCEPT ![event][callback] = 0],
                !.lastCall = Call("off", event, callback, 0, << >>)])
  /\ UNCHANGED besideListeners

\* a function on() returned is called: (): void => { this.off(event, callback) }
Unsubscribe ==
  /\ pc = "idle"
  /\ \E i \in 1..Len(unsubscribes) :
       LET u == unsubscribes[i]
           nth == IF u.calls < 2 THEN u.calls + 1 ELSE 2
       IN /\ listeners' = off(listeners, u.event, u.callback)
          /\ Alone("subscription",
                [subscription EXCEPT
                   !.unsubscribes = [unsubscribes EXCEPT ![i].calls = nth],
                   !.registered = [registered EXCEPT ![u.event][u.callback] = 0],
                   !.lastCall = Call("unsubscribe", u.event, u.callback, nth, << >>)])
  /\ UNCHANGED besideListeners

\* manager.emit(event, ...args)
ManagerEmit ==
  /\ pc = "idle"
  /\ \E event \in SubscriptionKinds :
       Alone("subscription",
         [subscription EXCEPT
            !.lastCall = Call("emit", event, "", 0, Delivered(listeners, event))])
  /\ UNCHANGED << listeners, besideListeners >>

InitSubscription ==
  /\ Init
  /\ resizeObserver
  /\ currentState.width = 1024 /\ currentState.height = 768 /\ ~currentState.isTouch

NextSubscription ==
  \/ ManagerOn
  \/ ManagerOff
  \/ Unsubscribe
  \/ ManagerEmit

SpecSubscription == InitSubscription /\ [][NextSubscription]_vars

\* ------------------------------------------- EventManager: bookkeeping
\* The EventManager of a constructed engine, called directly: on, off, the
\* functions on() returned, emit to handlers that call nothing back, and
\* destroy(), after which the manager is used again.
Op(name, event, callback, delivered) ==
  [name |-> name, event |-> event, callback |-> callback,
   had |-> IF callback = "" THEN 0 ELSE onCalls[event][callback],
   delivered |-> delivered]

\* const unsubscribe = manager.on(event, callback)
RegistryOn ==
  /\ pc = "idle"
  /\ \E event \in SubscriptionKinds, callback \in Handlers :
       /\ listeners' = on(listeners, event, callback)
       /\ Alone("registry",
             [ onCalls |-> [onCalls EXCEPT ![event][callback] =
                              IF @ < MaxGiven THEN @ + 1 ELSE @],
               returned |-> handedOut \cup { << event, callback >> },
               lastOp |-> Op("on", event, callback, << >>) ])
  /\ UNCHANGED besideListeners

\* manager.off(event, callback)
RegistryOff ==
  /\ pc = "idle"
  /\ \E event \in SubscriptionKinds, callback \in Handlers :
       /\ listeners' = off(listeners, event, callback)
       /\ Alone("registry",
             [registry EXCEPT !.onCalls[event][callback] = 0,
                              !.lastOp = Op("off", event, callback, << >>)])
  /\ UNCHANGED besideListeners

\* a function on() returned is called: (): void => { this.off(event, callback) }
RegistryUnsubscribe ==
  /\ pc = "idle"
  /\ \E u \in handedOut :
       /\ listeners' = off(listeners, u[1], u[2])
       /\ Alone("registry",
             [registry EXCEPT !.onCalls[u[1]][u[2]] = 0,
                              !.lastOp = Op("unsubscribe", u[1], u[2], << >>)])
  /\ UNCHANGED besideListeners

\* manager.emit(event, ...args)
RegistryEmit ==
  /\ pc = "idle"
  /\ \E event \in SubscriptionKinds :
       Alone("registry",
         [registry EXCEPT !.lastOp = Op("emit", event, "", Delivered(listeners, event))])
  /\ UNCHANGED << listeners, besideListeners >>

\* manager.destroy(): listeners.clear(); rafCallbacks.clear(); the pending
\* frame is cancelled
RegistryDestroy ==
  /\ pc = "idle"
  /\ listeners' = [k \in EventTypes |-> NoSet]
  /\ rafCallbacks' = {}
  /\ rafId' = "null"
  /\ hostFrames' = IF rafId # "null" THEN hostFrames - 1 ELSE hostFrames
  /\ Alone("registry",
        [registry EXCEPT !.onCalls = [k \in EventTypes |-> [h \in Handlers |-> 0]],
                         !.lastOp = Op("destroy", "", "", << >>)])
  /\ UNCHANGED << nativeListeners, debounceTimer, orientationTimers, core,
                  control, history >>

InitRegistry == InitSubscription

NextRegistry ==
  \/ RegistryOn
  \/ RegistryOff
  \/ RegistryUnsubscribe
  \/ RegistryEmit
  \/ RegistryDestroy

SpecRegistry == InitRegistry /\ [][NextRegistry]_vars

\* --------------------------------------------- EventManager: scheduleRAF
\* The EventManager of a constructed engine, called directly with callbacks
\* of three identities that call nothing back.
Callbacks == {1, 2, 3}

besideFrames == << nativeListeners, debounceTimer, orientationTimers, core,
                  listeners, control, history >>

\* manager.scheduleRAF(callback)
ManagerScheduleRAF ==
  /\ pc = "idle"
  /\ \E callback \in Callbacks :
       /\ scheduleRAFOf(callback)
       /\ IF executed.done
          THEN Alone("batching",
                 [ scheduled |-> << callback >>,
                   requests |-> hostFrames' - hostFrames,
                   executed |-> NoExecution ])
          ELSE /\ Len(scheduled) < MaxSchedule
               /\ Alone("batching",
                     [ scheduled |-> Append(scheduled, callback),
                       requests |-> requests + (hostFrames' - hostFrames),
                       executed |-> NoExecution ])
  /\ UNCHANGED besideFrames

\* the frame fires: callbacks = new Set(this.rafCallbacks); clear(); rafId = null;
\* callbacks.forEach(cb => { try { cb() } catch ... })
ManagerFrame ==
  /\ pc = "idle"
  /\ hostFrames > 0
  /\ hostFrames' = hostFrames - 1
  /\ rafCallbacks' = {}
  /\ rafId' = "null"
  /\ Alone("batching",
        [batching EXCEPT
           !.executed = [done |-> TRUE,
                         count |-> [cb \in Callbacks |->
                                      IF cb \in rafCallbacks THEN 1 ELSE 0]]])
  /\ UNCHANGED besideFrames

InitBatching == InitSubscription

NextBatching ==
  \/ ManagerScheduleRAF
  \/ ManagerFrame

SpecBatching == InitBatching /\ [][NextBatching]_vars

\* ------------------------------- EventManager: scheduleRAF from a callback
\* The EventManager of a constructed engine, called directly with callbacks
\* of three identities.  A callback the frame runs returns, throws, or calls
\* scheduleRAF(cb) and returns.
\* callbacks = new Set(this.rafCallbacks) sharing the Set with rafCallbacks
frameSetAfterAdd_shared(left, callback) == left \cup { callback }

\* callbacks = new Set(this.rafCallbacks): the forEach iterates a copy, which
\* an add() on rafCallbacks does not reach
frameSetAfterAdd(left, callback) == left

\* try { cb() } catch (error) { console.error(...) }
rafCatches == TRUE

\* manager.scheduleRAF(callback), from outside every frame
ReentryScheduleRAF ==
  /\ pc = "idle"
  /\ running = {}
  /\ \E callback \in Callbacks :
       /\ scheduleRAFOf(callback)
       /\ Alone("reentry", [reentry EXCEPT !.owed = owed \cup { callback }])
  /\ UNCHANGED besideFrames

\* the frame fires: callbacks = new Set(this.rafCallbacks); clear(); rafId = null
ReentryFrame ==
  /\ pc = "idle"
  /\ running = {}
  /\ hostFrames > 0
  /\ hostFrames' = hostFrames - 1
  /\ rafCallbacks' = {}
  /\ rafId' = "null"
  /\ Alone("reentry",
        [ copied |-> rafCallbacks, running |-> rafCallbacks,
          ranNow |-> [cb \in Callbacks |-> 0],
          threw |-> {}, asked |-> {}, owed |-> {},
          carried |-> (asked \ copied) \cap rafCallbacks ])
  /\ UNCHANGED besideFrames

Ran(cb) == [ranNow EXCEPT ![cb] = IF @ < 2 THEN @ + 1 ELSE @]

\* callbacks.forEach: the next cb runs and returns
ReentryCallbackReturns ==
  /\ pc = "idle"
  /\ \E cb \in running :
       Alone("reentry", [reentry EXCEPT !.running = running \ { cb }, !.ranNow = Ran(cb)])
  /\ UNCHANGED engine

\* the next cb runs and throws
ReentryCallbackThrows ==
  /\ pc = "idle"
  /\ \E cb \in running :
       Alone("reentry",
         [reentry EXCEPT !.running = IF rafCatches THEN running \ { cb } ELSE {},
                         !.ranNow = Ran(cb),
                         !.threw = threw \cup { cb }])
  /\ UNCHANGED engine

\* the next cb runs, calls manager.scheduleRAF(callback) and returns
ReentryCallbackSchedules ==
  /\ pc = "idle"
  /\ \E cb \in running, callback \in Callbacks :
       /\ scheduleRAFOf(callback)
       /\ Alone("reentry",
             [reentry EXCEPT !.running = frameSetAfterAdd(running \ { cb }, callback),
                             !.ranNow = Ran(cb),
                             !.asked = asked \cup { callback },
                             !.owed = owed \cup { callback }])
  /\ UNCHANGED besideFrames

InitReentry == InitSubscription

NextReentry ==
  \/ ReentryScheduleRAF
  \/ ReentryFrame
  \/ ReentryCallbackReturns
  \/ ReentryCallbackThrows
  \/ ReentryCallbackSchedules

SpecReentry == InitReentry /\ [][NextReentry]_vars

\* ------------------------------------------------ EventManager: debounce
\* One function made by debounce(func, delay), called with either of two
\* arguments as the host's time passes; a timer expires when it is due.
Arguments == {"a", "b"}

\* const debouncedFn = manager.debounce(func, delay)
Debounce ==
  /\ pc = "idle"
  /\ delay = 0
  /\ \E d \in 1..MaxDelay : Alone("debouncing", [debouncing EXCEPT !.delay = d])
  /\ UNCHANGED engine

\* debouncedFn(arg); a call made with no timer pending begins a burst
DebouncedCall ==
  /\ pc = "idle"
  /\ delay > 0
  /\ timeoutId.id < MaxCalls
  /\ \E arg \in Arguments :
       LET timer == [id |-> timeoutId.id + 1, due |-> now + delay, arg |-> arg]
           call == [t |-> now, arg |-> arg]
       IN Alone("debouncing",
            [debouncing EXCEPT
               !.timers = debounced(timers, timeoutId, timer),
               !.timeoutId = timer,
               !.calls = IF timers = {} THEN << call >> ELSE Append(calls, call),
               !.fires = IF timers = {} THEN << >> ELSE fires])
  /\ UNCHANGED engine

\* a timer is due: () => func(...args)
TimerExpires ==
  /\ pc = "idle"
  /\ \E timer \in timers :
       /\ timer.due <= now
       /\ Alone("debouncing",
             [debouncing EXCEPT
                !.timers = timers \ { timer },
                !.fires = Append(fires, [t |-> now, arg |-> timer.arg])])
  /\ UNCHANGED engine

\* time passes while no timer is due
Tick ==
  /\ pc = "idle"
  /\ delay > 0
  /\ now < MaxTime
  /\ \A timer \in timers : timer.due > now
  /\ Alone("debouncing", [debouncing EXCEPT !.now = now + 1])
  /\ UNCHANGED engine

InitDebouncing == InitSubscription

NextDebouncing ==
  \/ Debounce
  \/ DebouncedCall
  \/ TimerExpires
  \/ Tick

SpecDebouncing == InitDebouncing /\ [][NextDebouncing]_vars

\* ------------------------------------------- ViewportCore: classification
\* new ViewportCore(config) in a window of some width, and the state it
\* computes.  The names `breakpoints` may hold are those of its type; the
\* thresholds include those of the defaults md and lg.
BreakpointNames == {"md", "lg"}
CustomNames == {"md", "tablet", "wide"}
Thresholds == {768, 992, 1100}
Widths == {0, 600, 767, 768, 991, 992, 1024, 1100, 1500}

\* the objects of at most MaxEntries keys, in the order their keys were written
Tables(names) ==
  UNION { { t \in [1..n -> [name : names, value : Thresholds]] :
              \A i, j \in 1..n : i # j => t[i].name # t[j].name }
          : n \in 0..MaxEntries }

Configs ==
  { [hasBreakpoints |-> FALSE, breakpoints |-> << >>,
     hasCustomBreakpoints |-> (c # << >>), customBreakpoints |-> c]
    : c \in Tables(CustomNames) }
  \cup
  { [hasBreakpoints |-> TRUE, breakpoints |-> b,
     hasCustomBreakpoints |-> (c # << >>), customBreakpoints |-> c]
    : b \in Tables(BreakpointNames), c \in Tables(CustomNames) }

\* this.config = { ...DEFAULT_CONFIG, ...config }: a key the config has
\* replaces the default's value whole
ConfigOf(cfg) ==
  [ DEFAULT_CONFIG EXCEPT
      !.breakpoints = IF cfg.hasBreakpoints THEN cfg.breakpoints ELSE @,
      !.customBreakpoints = IF cfg.hasCustomBreakpoints THEN cfg.customBreakpoints ELSE @ ]

\* { ...this.config.breakpoints, ...this.config.customBreakpoints }
allBreakpoints(cfg) == Spread(cfg.breakpoints, cfg.customBreakpoints)

\* a window of the given width
WindowOf(w) ==
  [ innerWidth |-> w, innerHeight |-> 768, maxTouchPoints |-> 0,
    ontouchstart |-> FALSE, devicePixelRatio |-> 2 * One,
    hasScreen |-> TRUE, availWidth |-> 1920, availHeight |-> 1080 ]

\* new ViewportCore(cfg).getState() in a window of width w
Classify ==
  /\ result = Null
  /\ \E cfg \in Configs, w \in Widths :
       Alone("classification",
         [ given |-> cfg, system |-> "none", width |-> w,
           result |-> calculateState(ConfigOf(cfg), WindowOf(w)) ])
  /\ UNCHANGED engine

\* BOOTSTRAP_BREAKPOINTS.breakpoints
BOOTSTRAP_BREAKPOINTS ==
  << [name |-> "xs", value |-> 0],
     [name |-> "sm", value |-> 576],
     [name |-> "md", value |-> 768],
     [name |-> "lg", value |-> 992],
     [name |-> "xl", value |-> 1200],
     [name |-> "xxl", value |-> 1400] >>

\* TAILWIND_BREAKPOINTS.breakpoints
TAILWIND_BREAKPOINTS ==
  << [name |-> "sm", value |-> 640],
     [name |-> "md", value |-> 768],
     [name |-> "lg", value |-> 1024],
     [name |-> "xl", value |-> 1280],
     [name |-> "2xl", value |-> 1536] >>

\* the values of breakpointSystem drawn: two of the presets, and 'custom'
BreakpointSystems == {"bootstrap", "tailwind", "custom"}

PRESET_BREAKPOINTS(name) ==
  IF name = "tailwind" THEN TAILWIND_BREAKPOINTS ELSE BOOTSTRAP_BREAKPOINTS

\* the table of the BreakpointManager the instance makes:
\* breakpointSystem === 'custom' ? customBreakpoints : PRESET_BREAKPOINTS[...]
SystemTable(name, customBreakpoints) ==
  IF name = "custom" THEN customBreakpoints ELSE PRESET_BREAKPOINTS(name)

\* the config the instance gives its engine: new ViewportCore({ debounceDelay,
\* enableTouch, enableHighDPI, customBreakpoints })
ViewportConfigOf(customBreakpoints) ==
  [hasBreakpoints |-> FALSE, breakpoints |-> << >>,
   hasCustomBreakpoints |-> TRUE, customBreakpoints |-> customBreakpoints]

\* createBreakpointJS({ breakpointSystem, customBreakpoints }).getState() in a
\* window of width w
CreateBreakpointJS ==
  /\ result = Null
  /\ \E name \in BreakpointSystems, c \in Tables(CustomNames), w \in Widths :
       Alone("classification",
         [ given |-> ViewportConfigOf(c), system |-> name, width |-> w,
           result |-> calculateState(ConfigOf(ViewportConfigOf(c)), WindowOf(w)) ])
  /\ UNCHANGED engine

InitClassification == InitSubscription

NextClassification ==
  \/ Classify
  \/ CreateBreakpointJS

SpecClassification == InitClassification /\ [][NextClassification]_vars

\* ------------------------------------- ViewportCore: from its construction
\* new ViewportCore({ enableTouch, enableHighDPI }) in a host with or without
\* a window, the recomputations the host's callbacks cause and the reads.
\* The windows differ in width (portrait, square, landscape at height 768),
\* in touch points and in devicePixelRatio (0 or none, 0.5, 1, 2).
Options == [enableTouch : BOOLEAN, enableHighDPI : BOOLEAN]

SeenWidths == {600, 768, 1024}
SeenRatios == {0, 1, One, 2 * One}

SeenWindows ==
  { [ innerWidth |-> sw, innerHeight |-> 768, maxTouchPoints |-> tp,
      ontouchstart |-> FALSE, devicePixelRatio |-> dpr,
      hasScreen |-> TRUE, availWidth |-> 1920, availHeight |-> 1080 ]
    : sw \in SeenWidths, tp \in {0, 1}, dpr \in SeenRatios }

\* this.config = { ...DEFAULT_CONFIG, ...config }
ConfigWith(opts) ==
  [ DEFAULT_CONFIG EXCEPT !.enableTouch = opts.enableTouch,
                          !.enableHighDPI = opts.enableHighDPI ]

\* new ViewportCore(config): initialize() returns at once without a window,
\* else setupEventListeners(); setupMediaQueries(); updateState()
Construct ==
  /\ ~constructed
  /\ \E opts \in Options, present \in BOOLEAN, api \in HostAPIs, win \in SeenWindows :
       IF ~present
       THEN Alone("instance",
              [NoInstance EXCEPT !.constructed = TRUE, !.hasWindow = FALSE,
                                 !.options = opts])
       ELSE LET newState == calculateState(ConfigWith(opts), win)
            IN Alone("instance",
                 [ constructed |-> TRUE, hasWindow |-> TRUE, options |-> opts,
                   attachedTo |-> setupEventListeners(api)
                                  \cup setupMediaQueries(ConfigWith(opts)),
                   ownState |-> newState, priorState |-> Null,
                   emitted |-> updateStateEmits(Null, newState),
                   answer |-> NoAnswer ])
  /\ UNCHANGED engine

\* a host callback runs updateState(): only a host with a window has any
HostCallback ==
  /\ constructed /\ hasWindow
  /\ \E win \in SeenWindows :
       LET newState == calculateState(ConfigWith(options), win)
       IN Alone("instance",
            [instance EXCEPT !.priorState = ownState,
                             !.ownState = newState,
                             !.emitted = updateStateEmits(ownState, newState),
                             !.answer = NoAnswer])
  /\ UNCHANGED engine

\* getState(): if (!this.currentState) this.updateState(); return
\* this.currentState!  Without a window updateState returns at its guard.
InstanceGetState ==
  /\ constructed
  /\ Alone("instance",
        [instance EXCEPT !.answer = [op |-> "getState", value |-> ownState]])
  /\ UNCHANGED engine

InitInstance == InitSubscription

NextInstance ==
  \/ Construct
  \/ HostCallback
  \/ InstanceGetState

SpecInstance == InitInstance /\ [][NextInstance]_vars

\* ------------------------------------------------- the global instance
\* The functions of the main class file on the module's globalInstance.  M is
\* the module state [globalInstance, instances]; an instance is known by its
\* config, its isDestroyed flag and whether it was made to be the global one.
InstanceConfigs == {"undefined", "given"}

ModuleState == [globalInstance |-> globalInstance, instances |-> instances]

\* new BreakpointJSInstanceImpl(config)
NewInstance(cfg, asGlobal) ==
  [config |-> cfg, isDestroyed |-> FALSE, asGlobal |-> asGlobal]

\* getBreakpointJS making an instance whenever a config is given
getBreakpointJS_configMakesNew(M, cfg) ==
  IF M.globalInstance = 0 \/ cfg # "undefined"
  THEN [globalInstance |-> Len(M.instances) + 1,
        instances |-> Append(M.instances, NewInstance(cfg, TRUE))]
  ELSE M

\* getBreakpointJS(config): if (!globalInstance) globalInstance = new ...
getBreakpointJS(M, cfg) ==
  IF M.globalInstance = 0
  THEN [globalInstance |-> Len(M.instances) + 1,
        instances |-> Append(M.instances, NewInstance(cfg, TRUE))]
  ELSE M

\* instance.destroy(): if (this.isDestroyed) return; this.isDestroyed = true; ...
instanceDestroy(all, i) == [all EXCEPT ![i].isDestroyed = TRUE]

\* resetGlobalInstance(): if (globalInstance) { destroy(); globalInstance = null }
resetGlobalInstance(M) ==
  IF M.globalInstance # 0
  THEN [globalInstance |-> 0,
        instances |-> instanceDestroy(M.instances, M.globalInstance)]
  ELSE M

\* breakpoint.configure(config): resetGlobalInstance(); globalInstance = new ...
configure(M, cfg) ==
  LET R == resetGlobalInstance(M)
  IN [globalInstance |-> Len(R.instances) + 1,
      instances |-> Append(R.instances, NewInstance(cfg, TRUE))]

\* createBreakpointJS(config): return new BreakpointJSInstanceImpl(config)
createBreakpointJS(M, cfg) ==
  [globalInstance |-> M.globalInstance,
   instances |-> Append(M.instances, NewInstance(cfg, FALSE))]

\* the module state after a call, and the history of the call
After(op, M, returned, keeps) ==
  Alone("singleton",
    [ globalInstance |-> M.globalInstance,
      instances |-> M.instances,
      held |-> keeps,
      lastRequest |-> [op |-> op, returned |-> returned, found |-> globalInstance,
                       made |-> Len(M.instances) - Len(instances), held |-> held] ])

\* const i = getBreakpointJS(config)
GetBreakpointJS ==
  /\ \E cfg \in InstanceConfigs :
       LET M == getBreakpointJS(ModuleState, cfg)
       IN /\ Len(M.instances) <= MaxInstances
          /\ After("getBreakpointJS", M, M.globalInstance, M.globalInstance)
  /\ UNCHANGED engine

\* breakpoint.isMobile(), breakpoint.getState(), breakpoint.on(...) and the
\* other members of the convenience object that begin with getBreakpointJS()
Convenience ==
  /\ LET M == getBreakpointJS(ModuleState, "undefined")
     IN /\ Len(M.instances) <= MaxInstances
        /\ After("breakpoint.*", M, M.globalInstance, M.globalInstance)
  /\ UNCHANGED engine

\* breakpoint.configure(config)
Configure ==
  /\ Len(instances) < MaxInstances
  /\ After("configure", configure(ModuleState, "given"), 0, 0)
  /\ UNCHANGED engine

\* breakpoint.destroy()
BreakpointDestroy ==
  /\ After("destroy", resetGlobalInstance(ModuleState), 0, 0)
  /\ UNCHANGED engine

\* resetGlobalInstance()
ResetGlobalInstance ==
  /\ After("resetGlobalInstance", resetGlobalInstance(ModuleState), 0, 0)
  /\ UNCHANGED engine

\* const i = createBreakpointJS(config)
FactoryCreate ==
  /\ Len(instances) < MaxInstances
  /\ \E cfg \in InstanceConfigs :
       After("createBreakpointJS", createBreakpointJS(ModuleState, cfg),
             Len(instances) + 1, held)
  /\ UNCHANGED engine

\* i.destroy(), on an instance the caller holds
InstanceDestroy ==
  /\ \E i \in 1..Len(instances) :
       After("instance.destroy",
             [globalInstance |-> globalInstance,
              instances |-> instanceDestroy(instances, i)], 0, held)
  /\ UNCHANGED engine

InitSingleton == InitSubscription

NextSingleton ==
  \/ GetBreakpointJS
  \/ Convenience
  \/ Configure
  \/ BreakpointDestroy
  \/ ResetGlobalInstance
  \/ FactoryCreate
  \/ InstanceDestroy

SpecSingleton == InitSingleton /\ [][NextSingleton]_vars

\* ------------------------------------------------------ BreakpointManager
\* new BreakpointManager(system) in a window of some width, and the queries
\* above, below, between and mediaQuery.  The systems given are two presets
\* and systems whose tables hold md and lg in any order with thresholds that
\* may be negative or descending, whose name may be empty and whose unit may
\* be none of px, em, rem.
SystemThresholds == {-1, 0, 768, 992}
SystemUnits == {"px", "pt"}
SystemNames == {"", "custom"}
ManagerWidths == {0, 767, 768, 1024}

\* the names asked for: in a table, in no table, and a member of Object.prototype
QueryNames == {"md", "lg", "huge", "constructor"}
ObjectPrototype == {"constructor"}

SystemTables ==
  UNION { { t \in [1..n -> [name : BreakpointNames, value : SystemThresholds]] :
              \A i, j \in 1..n : i # j => t[i].name # t[j].name }
          : n \in 0..2 }

Systems ==
  { [name |-> "bootstrap", unit |-> "px", breakpoints |-> BOOTSTRAP_BREAKPOINTS],
    [name |-> "tailwind", unit |-> "px", breakpoints |-> TAILWIND_BREAKPOINTS] }
  \cup [name : SystemNames, unit : SystemUnits, breakpoints : SystemTables]

\* this.breakpointSystem.breakpoints[n]: the table's own entry, else what the
\* object inherits, else undefined
Property(table, n) ==
  IF n \in Names(table) THEN [type |-> "number", value |-> table[Lookup(table, n)].value]
  ELSE IF n \in ObjectPrototype THEN [type |-> "function", value |-> 0]
  ELSE [type |-> "undefined", value |-> 0]

\* updateCurrentBreakpoint()
updateCurrentBreakpoint(table, w) ==
  LET found == FirstAtMost(SortBy(table, TRUE), w)
      ascending == SortBy(table, FALSE)
  IN IF found # "none" THEN found
     ELSE IF ascending # << >> THEN ascending[1].name ELSE "null"

\* above(breakpoint); a function compares as NaN
above(table, w, n) ==
  LET breakpointValue == Property(table, n)
  IN IF breakpointValue.type = "undefined" THEN FALSE
     ELSE breakpointValue.type = "number" /\ w > breakpointValue.value

\* below(breakpoint)
below(table, w, n) ==
  LET breakpointValue == Property(table, n)
  IN IF breakpointValue.type = "undefined" THEN FALSE
     ELSE breakpointValue.type = "number" /\ w < breakpointValue.value

\* between(min, max)
between(table, w, min, max) ==
  LET minValue == Property(table, min)
      maxValue == Property(table, max)
  IN IF minValue.type = "undefined" THEN FALSE
     ELSE IF maxValue.type = "undefined" THEN FALSE
     ELSE /\ minValue.type = "number" /\ w >= minValue.value
          /\ maxValue.type = "number" /\ w < maxValue.value

\* generateMediaQuery(name, value): 'all' for 0, else `(min-width: ${value}${unit})`
generateMediaQuery(value, unit) ==
  IF value.type = "number" /\ value.value = 0 THEN [text |-> "all"]
  ELSE [text |-> "(min-width: )", value |-> value, unit |-> unit]

\* mediaQuery(breakpoint)
mediaQuery(sys, n) ==
  LET breakpointValue == Property(sys.breakpoints, n)
  IN IF breakpointValue.type = "undefined" THEN [text |-> ""]
     ELSE generateMediaQuery(breakpointValue, sys.unit)

\* validateBreakpointSystem(system): the errors it collects
validateBreakpointSystem(sys) ==
  LET originalValues == sys.breakpoints
      isAscending == \A i \in 1..(Len(originalValues) - 1) :
                       ~(originalValues[i].value > originalValues[i + 1].value)
      errors ==
        (IF sys.name = "" THEN { << "name", "" >> } ELSE {})
        \cup (IF sys.unit \notin {"px", "em", "rem"} THEN { << "unit", "" >> } ELSE {})
        \cup { << "negative", sys.breakpoints[i].name >> :
                 i \in { k \in 1..Len(sys.breakpoints) : sys.breakpoints[k].value < 0 } }
        \cup (IF ~isAscending THEN { << "order", "" >> } ELSE {})
  IN [isValid |-> errors = {}, errors |-> errors]

\* new BreakpointManager(system): this.breakpointSystem = system;
\* setupMediaQueries(); updateCurrentBreakpoint()
NewBreakpointManager ==
  /\ ~made
  /\ \E sys \in Systems, w \in ManagerWidths :
       Alone("queries",
         [ made |-> TRUE, breakpointSystem |-> sys, innerWidth |-> w,
           currentBreakpoint |-> updateCurrentBreakpoint(sys.breakpoints, w),
           reported |-> << >>, query |-> NoQuery ])
  /\ UNCHANGED engine

Asked(op, names, res) ==
  Alone("queries",
    [queries EXCEPT !.query = [op |-> op, names |-> names, result |-> res]])

Above ==
  /\ made
  /\ \E n \in QueryNames :
       Asked("above", << n >>, above(breakpointSystem.breakpoints, innerWidth, n))
  /\ UNCHANGED engine

Below ==
  /\ made
  /\ \E n \in QueryNames :
       Asked("below", << n >>, below(breakpointSystem.breakpoints, innerWidth, n))
  /\ UNCHANGED engine

Between ==
  /\ made
  /\ \E min \in QueryNames, max \in QueryNames :
       Asked("between", << min, max >>,
             between(breakpointSystem.breakpoints, innerWidth, min, max))
  /\ UNCHANGED engine

MediaQuery ==
  /\ made
  /\ \E n \in QueryNames : Asked("mediaQuery", << n >>, mediaQuery(breakpointSystem, n))
  /\ UNCHANGED engine

\* validateBreakpointSystem(system), on the system the manager was given
Validate ==
  /\ made
  /\ Asked("validate", << >>, validateBreakpointSystem(breakpointSystem))
  /\ UNCHANGED engine

InitQueries == InitSubscription

NextQueries ==
  \/ NewBreakpointManager
  \/ Above
  \/ Below
  \/ Between
  \/ MediaQuery
  \/ Validate

SpecQueries == InitQueries /\ [][NextQueries]_vars

\* ------------------------------------------ ViewportCore: settle timers
\* new ViewportCore({ debounceDelay }) in a host without ResizeObserver whose
\* clock is followed: 'orientationchange' and window 'resize' events arrive,
\* the timers they set expire when they are due, destroy() is called.
Instants == {0, 50, 100, 150, 200, 250, 300}
DebounceDelays == {0, 50, 100, 200}

\* setTimeout(() => this.updateState(), 100)
OrientationSettleDelay == 100

\* the 'orientationchange' listener setting its timer after debounceDelay
orientationchangeListener_debounceDelay(timers0, id, at, configured) ==
  timers0 \cup { [id |-> id, kind |-> "settle", setAt |-> at, due |-> at + configured] }

\* the 'orientationchange' listener: setTimeout(() => this.updateState(), 100)
orientationchangeListener(timers0, id, at, configured) ==
  timers0 \cup { [id |-> id, kind |-> "settle", setAt |-> at,
                  due |-> at + OrientationSettleDelay] }

\* new ViewportCore({ debounceDelay }): the first state is computed
RotationConstruct ==
  /\ ~built
  /\ \E d \in DebounceDelays, s \in WindowStates :
       Alone("rotation",
         [NoRotation EXCEPT !.built = TRUE, !.debounceDelay = d, !.shown = s])
  /\ UNCHANGED engine

\* the window's 'orientationchange' event; the listener stays registered
\* after destroy()
RotationOrientationChange ==
  /\ built
  /\ issued < MaxCalls
  /\ Cardinality({ t \in hostTimers : t.kind = "settle" }) < MaxTimers
  /\ Alone("rotation",
        [rotation EXCEPT
           !.pending = orientationchangeListener(hostTimers, issued + 1, time, debounceDelay),
           !.issued = issued + 1,
           !.step = [NoStep EXCEPT !.op = "orientationchange", !.before = shown]])
  /\ UNCHANGED engine

\* the window's 'resize' event: debouncedUpdate()
RotationResize ==
  /\ built
  /\ issued < MaxCalls
  /\ LET timer == [id |-> issued + 1, kind |-> "debounce", setAt |-> time,
                   due |-> time + debounceDelay]
     IN Alone("rotation",
          [rotation EXCEPT
             !.pending = debounced(hostTimers, debounceId, timer),
             !.debounceId = timer,
             !.issued = issued + 1,
             !.step = [NoStep EXCEPT !.op = "resize", !.before = shown]])
  /\ UNCHANGED engine

\* a timer is due: () => this.updateState()
RotationTimer ==
  /\ \E timer \in hostTimers :
       /\ timer.due <= time
       /\ \E newState \in WindowStates :
            Alone("rotation",
              [rotation EXCEPT
                 !.pending = hostTimers \ { timer },
                 !.shown = IF gone THEN shown ELSE newState,
                 !.step = [ op |-> "timer", kind |-> timer.kind,
                            waited |-> time - timer.setAt,
                            ran |-> IF gone THEN 0 ELSE 1,
                            before |-> shown,
                            emits |-> IF gone THEN << >>
                                      ELSE updateStateEmits(shown, newState) ]])
  /\ UNCHANGED engine

\* time passes while no timer is due
RotationTick ==
  /\ built
  /\ \A timer \in hostTimers : timer.due > time
  /\ \E later \in Instants :
       /\ later > time
       /\ \A i \in Instants : i > time => later <= i
       /\ Alone("rotation", [rotation EXCEPT !.time = later])
  /\ UNCHANGED engine

\* destroy(): the flag is set and currentState becomes null; no timer is cleared
RotationDestroy ==
  /\ built /\ ~gone
  /\ Alone("rotation",
        [rotation EXCEPT !.gone = TRUE, !.shown = Null,
                         !.step = [NoStep EXCEPT !.op = "destroy", !.before = shown]])
  /\ UNCHANGED engine

InitRotation == InitSubscription

NextRotation ==
  \/ RotationConstruct
  \/ RotationOrientationChange
  \/ RotationResize
  \/ RotationTimer
  \/ RotationTick
  \/ RotationDestroy

SpecRotation == InitRotation /\ [][NextRotation]_vars

\* ------------------------------------- BreakpointJSInstanceImpl: creation
\* createBreakpointJS(config) for every combination of the feature toggles,
\* in a host with or without a document; then css.generateCustomProperties()
\* and destroy() on the instance made.
Toggles ==
  [ enableSafeArea : BOOLEAN, enableA11y : BOOLEAN, enableDeviceDetection : BOOLEAN,
    autoCSSVars : BOOLEAN, enableContainerQueries : BOOLEAN ]

\* this.safeArea = enableSafeArea ? new SafeAreaManager() : null
safeAreaOf(cfg) == IF cfg.enableSafeArea THEN "SafeAreaManager" ELSE "null"

\* setupAutoUpdates(): viewport.on('resize'), viewport.on('breakpointchange'),
\* this.safeArea.on('change'), updateCustomProperties()
setupAutoUpdates(safeArea, document) ==
  IF ~document THEN [threw |-> FALSE, subscribed |-> {}]
  ELSE IF safeArea = "null"
       THEN [threw |-> TRUE, subscribed |-> {"resize", "breakpointchange"}]
       ELSE [threw |-> FALSE, subscribed |-> {"resize", "breakpointchange", "change"}]

\* generateCustomProperties(): viewport.getState(), this.safeArea.getInsets(), ...
generateCustomProperties(safeArea) ==
  IF safeArea = "null" THEN "TypeError" ELSE "properties"

\* new CSSIntegration(breakpoints, viewport, safeArea, prefix, autoUpdate):
\* if (this.autoUpdate) this.setupAutoUpdates()
NewCSSIntegration(safeArea, autoUpdate, document) ==
  IF autoUpdate THEN setupAutoUpdates(safeArea, document)
  ELSE [threw |-> FALSE, subscribed |-> {}]

\* const i = createBreakpointJS(config)
Create ==
  /\ outcome = "none"
  /\ \E cfg \in Toggles, document \in BOOLEAN :
       LET css == NewCSSIntegration(safeAreaOf(cfg), cfg.autoCSSVars, document)
       IN Alone("creation",
            [ toggles |-> cfg, hasDocument |-> document,
              outcome |-> IF css.threw THEN "TypeError" ELSE "constructed",
              cssSubscriptions |-> css.subscribed,
              generated |-> "none", torndown |-> FALSE ])
  /\ UNCHANGED engine

\* i.css.generateCustomProperties()
GenerateCustomProperties ==
  /\ outcome = "constructed" /\ ~torndown
  /\ Alone("creation",
        [creation EXCEPT !.generated = generateCustomProperties(safeAreaOf(toggles))])
  /\ UNCHANGED engine

\* i.destroy(): the components are destroyed, safeArea only if there is one
DestroyCreated ==
  /\ outcome = "constructed" /\ ~torndown
  /\ Alone("creation", [creation EXCEPT !.torndown = TRUE])
  /\ UNCHANGED engine

\* the instance is dropped and another creation begins
Discard ==
  /\ outcome # "none"
  /\ Alone("creation", NoCreation)
  /\ UNCHANGED engine

InitCreation == InitSubscription

NextCreation ==
  \/ Create
  \/ GenerateCustomProperties
  \/ DestroyCreated
  \/ Discard

SpecCreation == InitCreation /\ [][NextCreation]_vars

\* ------------------------------------------ BreakpointManager: watchers
\* new BreakpointManager(system) for the bootstrap preset and for two custom
\* tables, one with a threshold 0; watchBreakpoint for names in and out of
\* the table, the functions it returns, and the 'change' events of the media
\* query lists as the window's width changes.
WatchedTables ==
  { BOOTSTRAP_BREAKPOINTS,
    << [name |-> "md", value |-> 0], [name |-> "lg", value |-> 992] >>,
    << [name |-> "md", value |-> 768], [name |-> "lg", value |-> 992] >> }

WatchNames == {"xs", "md", "lg", "huge"}

\* mql.matches of the media query generateMediaQuery makes for the value:
\* 'all' for 0, else (min-width: value)
Matches(value, w) == value = 0 \/ w >= value

\* watchBreakpoint(name, callback): if (!this.breakpointSystem.breakpoints[name])
\* warns and returns a no-op; else the callback is added to the name's Set and
\* called at once with mql.matches when the name has a media query list
watchBreakpoint(tbl, w, all, name, callback) ==
  LET breakpointValue == Property(tbl, name)
  IN IF \/ breakpointValue.type = "undefined"
        \/ (breakpointValue.type = "number" /\ breakpointValue.value = 0)
     THEN [warned |-> TRUE, watchers |-> all, unsubscribe |-> "no-op", invoked |-> {}]
     ELSE [ warned |-> FALSE,
            watchers |-> all \cup { << name, callback >> },
            unsubscribe |-> "remove",
            invoked |-> IF name \in Names(tbl)
                        THEN { << callback, Matches(tbl[Lookup(tbl, name)].value, w) >> }
                        ELSE {} ]

\* new BreakpointManager(system)
NewWatchedManager ==
  /\ ~watched
  /\ \E tbl \in WatchedTables, w \in ManagerWidths :
       Alone("watching",
         [NoWatching EXCEPT !.watched = TRUE, !.table = tbl, !.seenWidth = w])
  /\ UNCHANGED engine

\* const unsubscribe = manager.watchBreakpoint(name, callback)
WatchBreakpoint ==
  /\ watched
  /\ \E name \in WatchNames, callback \in Handlers :
       LET r == watchBreakpoint(watchedTable, seenWidth, watchers, name, callback)
       IN /\ Cardinality(r.watchers) <= MaxListeners
          /\ Alone("watching",
                [watching EXCEPT
                   !.watchers = r.watchers,
                   !.lastWatch = [op |-> "watchBreakpoint", name |-> name,
                                  callback |-> callback, warned |-> r.warned,
                                  unsubscribe |-> r.unsubscribe,
                                  invoked |-> r.invoked, before |-> watchers]])
  /\ UNCHANGED engine

\* a function watchBreakpoint returned for a name it found is called
Unwatch ==
  /\ watched
  /\ \E u \in watchers :
       Alone("watching",
         [watching EXCEPT
            !.watchers = watchers \ { u },
            !.lastWatch = [NoWatch EXCEPT !.op = "unsubscribe", !.name = u[1],
                                           !.callback = u[2], !.before = watchers]])
  /\ UNCHANGED engine

\* the window's width changes: the lists whose query matches no longer, or
\* matches now, are due a 'change' event
WidthChanges ==
  /\ watched
  /\ changes = {}
  /\ \E w \in ManagerWidths \ { seenWidth } :
       Alone("watching",
         [watching EXCEPT
            !.seenWidth = w,
            !.changes = { watchedTable[i].name : i \in { k \in 1..Len(watchedTable) :
                            Matches(watchedTable[k].value, w)
                              # Matches(watchedTable[k].value, seenWidth) } },
            !.lastWatch = [NoWatch EXCEPT !.op = "width"]])
  /\ UNCHANGED engine

\* mql 'change': handleMediaQueryChange(name, event.matches) calls the
\* watchers of the name
ChangeEvent ==
  /\ \E name \in changes :
       Alone("watching",
         [watching EXCEPT
            !.changes = changes \ { name },
            !.lastWatch =
               [NoWatch EXCEPT
                  !.op = "change", !.name = name, !.before = watchers,
                  !.invoked = { << u[2], Matches(watchedTable[Lookup(watchedTable, name)].value,
                                                 seenWidth) >>
                                : u \in { x \in watchers : x[1] = name } }]])
  /\ UNCHANGED engine

InitWatching == InitSubscription

NextWatching ==
  \/ NewWatchedManager
  \/ WatchBreakpoint
  \/ Unwatch
  \/ WidthChanges
  \/ ChangeEvent

SpecWatching == InitWatching /\ [][NextWatching]_vars

\* ------------------------------------- the instance: its two classifiers
\* createBreakpointJS({ breakpointSystem, customBreakpoints }) makes a
\* ViewportCore from customBreakpoints and a BreakpointManager from the system;
\* the window's width changes, the engine recomputes its state when its
\* debounced resize runs and the manager its current breakpoint when a media
\* query list reports a change.
PairCustoms == { t \in Tables(CustomNames) : Len(t) <= 1 }
PairWidths == {0, 767, 768, 1024, 1536}

\* getCurrentBreakpoint(): a current breakpoint of null is computed again, and
\* null is returned as ''
getCurrentBreakpoint(tbl, w, currentName) ==
  LET again == IF currentName = "null" THEN updateCurrentBreakpoint(tbl, w)
               ELSE currentName
  IN IF again = "null" THEN "" ELSE again

\* some media query list of the table matches at one width and not at the other
SomeQueryChanges(tbl, from, to) ==
  \E i \in 1..Len(tbl) : Matches(tbl[i].value, from) # Matches(tbl[i].value, to)

\* new BreakpointJSInstanceImpl({ breakpointSystem, customBreakpoints })
Assemble ==
  /\ ~assembled
  /\ \E name \in BreakpointSystems, c \in PairCustoms, w \in PairWidths :
       Alone("pair",
         [ assembled |-> TRUE, breakpointSystem |-> name, customBreakpoints |-> c,
           innerWidth |-> w,
           stateBreakpoint |->
             calculateBreakpoint(ConfigOf(ViewportConfigOf(c)), w),
           managerBreakpoint |-> updateCurrentBreakpoint(SystemTable(name, c), w),
           resizePending |-> FALSE, changePending |-> FALSE ])
  /\ UNCHANGED engine

\* the window is resized: the engine is told, and the manager if a query of
\* its table changes
PairResize ==
  /\ assembled
  /\ \E w \in PairWidths \ { pairWidth } :
       Alone("pair",
         [pair EXCEPT
            !.innerWidth = w,
            !.resizePending = TRUE,
            !.changePending =
               @ \/ SomeQueryChanges(SystemTable(pairSystem, pairCustom), pairWidth, w)])
  /\ UNCHANGED engine

\* the engine's updateState runs
PairUpdateState ==
  /\ resizePending
  /\ Alone("pair",
       [pair EXCEPT
          !.resizePending = FALSE,
          !.stateBreakpoint =
             calculateBreakpoint(ConfigOf(ViewportConfigOf(pairCustom)), pairWidth)])
  /\ UNCHANGED engine

\* the manager's handleMediaQueryChange runs for the changes reported
PairMediaQueryChange ==
  /\ changePending
  /\ Alone("pair",
       [pair EXCEPT
          !.changePending = FALSE,
          !.managerBreakpoint =
             updateCurrentBreakpoint(SystemTable(pairSystem, pairCustom), pairWidth)])
  /\ UNCHANGED engine

InitPair == InitSubscription

NextPair ==
  \/ Assemble
  \/ PairResize
  \/ PairUpdateState
  \/ PairMediaQueryChange

SpecPair == InitPair /\ [][NextPair]_vars

TypeOK ==
  /\ pc \in {"idle", "frame", "emit", "done"}
  /\ isDestroyed \in BOOLEAN
  /\ hostFrames \in 0..1
  /\ (pc = "emit") = (iter # << >>)
  /\ (currentState = Null) = isDestroyed
  /\ rafCallbacks \subseteq 1..MaxBurst

\* ------------------------------------------------ reading the cycle log
ChangeKinds == {"breakpointchange", "orientationchange", "touchchange"}

\* a recomputation was recorded and has run to its end
CycleComplete == pc \in {"frame", "done"} /\ cycleLog # << >>

EmitIndexes(log) == { i \in 1..Len(log) : log[i].t = "emit" }

EmitsOfKind(log, k) == { i \in EmitIndexes(log) : log[i].kind = k }

\* the emit calls of the log, as updateState made them
RECURSIVE EmitCalls(_)
EmitCalls(log) ==
  IF log = << >> THEN << >>
  ELSE (IF Head(log).t = "emit"
        THEN << [kind |-> Head(log).kind, args |-> Head(log).args] >>
        ELSE << >>) \o EmitCalls(Tail(log))

\* the handlers invoked from position j up to the next emit call
RECURSIVE CallsFrom(_, _)
CallsFrom(log, j) ==
  IF j > Len(log) \/ log[j].t = "emit" THEN << >>
  ELSE << log[j].h >> \o CallsFrom(log, j + 1)

\* the step invokes a handler
HandlerInvoked ==
  /\ pc = "emit"
  /\ Len(cycleLog') > Len(cycleLog)
  /\ cycleLog'[Len(cycleLog) + 1].t = "call"


\* ------------------------------------------------------------------ claims

\* C1: all the native signals of one scheduling window (before the pending
\* frame fires, or before the debounce timer expires) are served by exactly
\* one recomputation: no host callback runs updateState to a new state more
\* than once.
C1_Coalescing == recomputations <= 1

\* C2: in a recomputation cycle 'resize' comes before every
\* 'breakpointchange', 'orientationchange' and 'touchchange' of the cycle:
\* nothing of a change kind is emitted or delivered ahead of a 'resize' entry.
C2_ResizeFirst ==
  \A i, j \in 1..Len(cycleLog) :
    (i < j /\ cycleLog[j].kind = "resize") => cycleLog[i].kind \notin ChangeKinds

\* C3: once destroy() has returned no handler is invoked any more.
C3_PostDestroySilence == [][isDestroyed => ~HandlerInvoked]_vars

\* C4: after destroy() every getState() returns the last computed state, and
\* every projection returns the field of that state, without throwing.
C4_ReadAfterDestroy ==
  (isDestroyed /\ ret.op # "none") =>
    /\ ~ret.threw
    /\ ret.state = lastState
    /\ ret.op \in Projections => ret.proj = Project(ret.op, lastState)

\* C5: in the state destroy() returns in, no animation frame and no debounce
\* timer of the engine is pending.
C5_DestroyCancels ==
  [][(~isDestroyed /\ isDestroyed') => (hostFrames' = 0 /\ ~debounceTimer')]_vars

\* C6: a destroyed engine has no registration left with the host.
C6_ListenersRemoved == isDestroyed => nativeListeners = {}

\* C7: when a cycle computes B from A and the breakpoints differ,
\* 'breakpointchange' (B.breakpoint, A.breakpoint) is emitted exactly once in
\* that cycle, and it has been emitted in every state in which B can be
\* read: inside the cycle from a handler, and after it.
C7_ChangeBeforeRead ==
  (cycleLog # << >> /\ previousState # Null
     /\ previousState.breakpoint # lastState.breakpoint) =>
    /\ Cardinality(EmitsOfKind(cycleLog, "breakpointchange")) = 1
    /\ \A i \in EmitsOfKind(cycleLog, "breakpointchange") :
         cycleLog[i].args = << lastState.breakpoint, previousState.breakpoint >>

\* a 'resize' handler has just read B in a cycle that changed the breakpoint
C7_Witness ==
  /\ ret.op = "getState" /\ ret.from = "resize"
  /\ previousState # Null
  /\ ret.state = lastState
  /\ previousState.breakpoint # lastState.breakpoint

\* C8: a recomputation that has a previous state emits 'breakpointchange'
\* iff the breakpoint differs, 'orientationchange' iff the orientation
\* differs, 'touchchange' iff isTouch differs, each at most once; every
\* recomputation emits 'resize' once, with the state it computed.
C8_NoSpuriousChange ==
  CycleComplete =>
    /\ Cardinality(EmitsOfKind(cycleLog, "resize")) = 1
    /\ \A i \in EmitsOfKind(cycleLog, "resize") : cycleLog[i].args = << lastState >>
    /\ \A k \in ChangeKinds : Cardinality(EmitsOfKind(cycleLog, k)) <= 1
    /\ previousState = Null => \A k \in ChangeKinds : EmitsOfKind(cycleLog, k) = {}
    /\ previousState # Null =>
         /\ (EmitsOfKind(cycleLog, "breakpointchange") # {})
              = (previousState.breakpoint # lastState.breakpoint)
         /\ (EmitsOfKind(cycleLog, "orientationchange") # {})
              = (previousState.orientation # lastState.orientation)
         /\ (EmitsOfKind(cycleLog, "touchchange") # {})
              = (previousState.isTouch # lastState.isTouch)

\* two consecutive recomputations with identical fields: 'resize' was
\* delivered, no change event was emitted
C8_Witness ==
  /\ CycleComplete
  /\ previousState = lastState
  /\ \E i \in 1..Len(cycleLog) : cycleLog[i].t = "call" /\ cycleLog[i].kind = "resize"

\* C9: the handlers an emission invokes are exactly those registered when
\* emit started, each once, in their order.
C9_Snapshot ==
  CycleComplete =>
    \A i \in EmitIndexes(cycleLog) : CallsFrom(cycleLog, i + 1) = cycleLog[i].snap

\* no handler of the cycle changed the registry or destroyed the engine
Undisturbed(log) ==
  \A i \in 1..Len(log) : log[i].t = "call" => log[i].op \in {"return", "throw"}

\* C10: a handler that throws stops nothing: in a cycle whose handlers only
\* return or throw, every handler registered for an emitted kind is invoked
\* with the payload of the emit call, the state is updated and updateState
\* makes all its emit calls.
C10_FaultIsolation ==
  (CycleComplete /\ Undisturbed(cycleLog)) =>
    /\ currentState = lastState
    /\ EmitCalls(cycleLog) = updateStateEmits(previousState, lastState)
    /\ \A i \in EmitIndexes(cycleLog) :
         /\ CallsFrom(cycleLog, i + 1) = cycleLog[i].snap
         /\ \A j \in (i + 1)..(i + Len(cycleLog[i].snap)) :
              cycleLog[j].kind = cycleLog[i].kind /\ cycleLog[j].args = cycleLog[i].args

\* a handler threw, the next handler of the same emission was invoked and a
\* later emit call of the cycle was made
C10_Witness ==
  /\ CycleComplete /\ Undisturbed(cycleLog)
  /\ \E i \in 1..Len(cycleLog) :
       /\ cycleLog[i].t = "call" /\ cycleLog[i].op = "throw"
       /\ i + 2 <= Len(cycleLog)
       /\ cycleLog[i + 1].t = "call"
       /\ cycleLog[i + 2].t = "emit"


\* A handler runs in a destroyed engine only in the cycle in which a handler
\* called destroy(): no cycle starts once the engine is destroyed.
DestroyedEmissionIsReentrant ==
  (isDestroyed /\ pc = "emit") =>
    \E i \in 1..Len(cycleLog) : cycleLog[i].t = "call" /\ cycleLog[i].op = "destroy"

\* --------------------------------------------------- claims: subscriptions
Registered(L, event, callback) ==
  L[event].has /\ callback \in Elems(L[event].elems)

\* the handlers the calls made so far leave registered for the event
RegisteredNow(event) == { h \in Handlers : registered[event][h] > 0 }

\* C11: the second and every later call of a function on() returned leaves
\* every handler set as it was, whatever was called since its first call.
C11_UnsubscribeIdempotent ==
  (lastCall.name = "unsubscribe" /\ lastCall.nth >= 2) => listeners = lastCall.before

\* C12: the function on(kind, h) returned, and off(kind, h), remove the
\* registration of h for kind and nothing else: every other handler of the
\* kind and every handler of another kind is registered after the call iff it
\* was before; when h was not registered the registry is unchanged; and an
\* emission reaches exactly the handlers registered and not removed since.
C12_UnsubscribeExact ==
  /\ lastCall.name \in {"off", "unsubscribe"} =>
       /\ ~Registered(listeners, lastCall.event, lastCall.callback)
       /\ \A k \in EventTypes, g \in Handlers :
            << k, g >> # << lastCall.event, lastCall.callback >> =>
              (Registered(listeners, k, g) <=> Registered(lastCall.before, k, g))
       /\ ~Registered(lastCall.before, lastCall.event, lastCall.callback) =>
            listeners = lastCall.before
  /\ lastCall.name = "emit" =>
       Elems(lastCall.delivered) = RegisteredNow(lastCall.event)

\* h was unsubscribed while another handler of its kind and h itself for
\* another kind were registered: both still are
C12_Witness ==
  /\ lastCall.name = "unsubscribe"
  /\ Registered(lastCall.before, lastCall.event, lastCall.callback)
  /\ \E g \in Handlers \ {lastCall.callback} : Registered(listeners, lastCall.event, g)
  /\ \E k \in SubscriptionKinds \ {lastCall.event} :
       Registered(listeners, k, lastCall.callback)

\* C13: an emission invokes the handlers registered for its kind, each once,
\* in the order of their (latest) registration.
C13_RegistrationOrder ==
  lastCall.name = "emit" =>
    LET d == lastCall.delivered
        e == lastCall.event
    IN /\ Elems(d) = RegisteredNow(e)
       /\ Len(d) = Cardinality(RegisteredNow(e))
       /\ \A i, j \in 1..Len(d) : i < j => registered[e][d[i]] < registered[e][d[j]]

\* h1 was registered first, removed and registered again behind h2: the
\* emission invokes h2, then h1
C13_Witness ==
  /\ lastCall.name = "emit"
  /\ lastCall.delivered = << "h2", "h1" >>
  /\ unsubscribes # << >>
  /\ unsubscribes[1].event = lastCall.event
  /\ unsubscribes[1].callback = "h1"

\* -------------------------------------------------------- claims: frames
\* C14: the scheduleRAF calls made before the pending frame fires request
\* one animation frame between them; when it fires, every callback passed
\* is executed exactly once, however often it was passed, and no other;
\* after it no frame is pending and the callback set is empty.
C14_SingleFlight ==
  /\ hostFrames <= 1
  /\ (scheduled # << >> /\ ~executed.done) => (requests = 1 /\ hostFrames = 1)
  /\ executed.done =>
       /\ requests = 1
       /\ \A cb \in Callbacks :
            executed.count[cb] = (IF cb \in Elems(scheduled) THEN 1 ELSE 0)
       /\ hostFrames = 0 /\ rafId = "null" /\ rafCallbacks = {}

\* a frame has run two callbacks, one of them passed twice
C14_Witness ==
  /\ executed.done
  /\ Cardinality(Elems(scheduled)) = 2
  /\ Len(scheduled) >= 3

\* ------------------------------------------------------ claims: debounce
LastCall == calls[Len(calls)]

\* C15: a debounced function has at most one timer pending, the one of its
\* last call; func is invoked once per burst, the delay after the last call
\* of the burst and with the arguments of that call.
C15_Debounce ==
  /\ Cardinality(timers) <= 1
  /\ \A timer \in timers :
       timer.due = LastCall.t + delay /\ timer.arg = LastCall.arg
  /\ Len(fires) <= 1
  /\ fires # << >> => fires[1] = [t |-> LastCall.t + delay, arg |-> LastCall.arg]
  /\ (calls # << >> /\ timers = {}) => Len(fires) = 1

\* func has been invoked for a burst of calls made at different times with
\* different arguments
C15_Witness ==
  /\ fires # << >>
  /\ Len(calls) >= 2
  /\ calls[1].t < LastCall.t
  /\ calls[1].arg # LastCall.arg

\* ------------------------------------------------ claims: classification
\* the table the engine classifies with
Effective == allBreakpoints(ConfigOf(given))

ValueOf(table, n) == table[Lookup(table, n)].value

Values(table) == { table[i].value : i \in 1..Len(table) }

AsMap(table) == { << table[i].name, table[i].value >> : i \in 1..Len(table) }

\* C16: the breakpoint computed for a width is an entry of the effective
\* table with the greatest threshold <= width (a threshold equal to the
\* width counts), or one with the smallest threshold when no threshold is
\* <= width; the default table gives lg for 1024.
C16_Classify ==
  (result # Null /\ Effective # << >>) =>
    LET b == result.breakpoint
        reached == { v \in Values(Effective) : v <= width }
    IN /\ b \in Names(Effective)
       /\ reached # {} => (ValueOf(Effective, b) \in reached
                          /\ \A v \in reached : v <= ValueOf(Effective, b))
       /\ reached = {} => \A v \in Values(Effective) : ValueOf(Effective, b) <= v
       /\ (given = NoConfig /\ width = 1024) => b = "lg"

\* a configured table classified a width that equals one of its thresholds
\* while a greater and a smaller threshold exist
C16_Witness ==
  /\ result # Null
  /\ given.hasCustomBreakpoints
  /\ ValueOf(Effective, result.breakpoint) = width
  /\ \E v \in Values(Effective) : v > width
  /\ \E v \in Values(Effective) : v < width

\* C17: for widths w1 < w2 the threshold of the breakpoint of w1 is <= the
\* threshold of the breakpoint of w2.
C17_Monotonic ==
  (result # Null /\ Effective # << >>) =>
    \A w \in Widths :
      LET other == ValueOf(Effective, calculateBreakpoint(ConfigOf(given), w))
          this == ValueOf(Effective, result.breakpoint)
      IN /\ w > width => this <= other
         /\ w < width => other <= this

\* a width below every threshold of a table given without a 0 entry, which
\* a greater width classifies with another entry
C17_Witness ==
  /\ result # Null
  /\ given.hasBreakpoints /\ Effective # << >>
  /\ \A v \in Values(Effective) : v > width
  /\ \E w \in Widths :
       /\ w > width
       /\ calculateBreakpoint(ConfigOf(given), w) # result.breakpoint

\* C18: the effective table is the default table overlaid by name with the
\* entries of `breakpoints`, then with those of `customBreakpoints`.
C18_MergeRule ==
  result # Null =>
    AsMap(Effective) =
      AsMap(Spread(Spread(DEFAULT_BREAKPOINTS, given.breakpoints),
                   given.customBreakpoints))

\* C19: when a custom entry and another entry share the greatest threshold
\* <= width, the breakpoint is not the other entry.
C19_TieBreak ==
  (result # Null /\ Effective # << >>) =>
    \A i, j \in 1..Len(Effective) :
      ( /\ Effective[i].value = Effective[j].value
        /\ Effective[i].value <= width
        /\ \A v \in Values(Effective) : v <= width => v <= Effective[i].value
        /\ Effective[i].name \in Names(given.customBreakpoints)
        /\ Effective[j].name \notin Names(given.customBreakpoints) )
      => result.breakpoint # Effective[j].name

\* C20: exactly one of isMobile, isTablet, isDesktop is true in a computed
\* state, whatever md and lg are configured.
C20_Exclusive ==
  result # Null =>
    Cardinality({ f \in {"isMobile", "isTablet", "isDesktop"} :
                   Project(f, result) = "true" }) = 1

\* md is configured above lg and the width lies between them
C20_Witness ==
  /\ result # Null
  /\ given.hasBreakpoints
  /\ "md" \in Names(given.breakpoints) /\ "lg" \in Names(given.breakpoints)
  /\ ValueOf(given.breakpoints, "lg") <= width
  /\ width < ValueOf(given.breakpoints, "md")

\* the table of the defaults overlaid by `breakpoints` and by `customBreakpoints`
Merged ==
  Spread(Spread(DEFAULT_BREAKPOINTS, given.breakpoints), given.customBreakpoints)

\* C21: isMobile iff width < md, isTablet iff md <= width < lg, isDesktop
\* otherwise, md and lg being the values the merged table (defaults overlaid
\* by `breakpoints` and by `customBreakpoints`) holds for those names.
C21_DeviceClass ==
  result # Null =>
    LET md == ValueOf(Merged, "md")
        lg == ValueOf(Merged, "lg")
    IN /\ result.isMobile = (width < md)
       /\ result.isTablet = (md <= width /\ width < lg)
       /\ result.isDesktop = ~(width < lg)

\* the names of the table the instance was configured with: those of the
\* preset (or of the custom system) and of customBreakpoints, or those of the
\* engine's own table when the engine was made directly
ConfiguredNames ==
  IF system = "none" THEN Names(Effective)
  ELSE Names(SystemTable(system, given.customBreakpoints))
       \cup Names(given.customBreakpoints)

\* C22: the breakpoint of every state getState() returns is one of the names
\* of the table the instance was configured with; for an instance made with
\* a preset breakpointSystem it is a name of that preset or of
\* customBreakpoints, for every width.
C22_ConfiguredName == result # Null => result.breakpoint \in ConfiguredNames

\* C23: the recomputation that runs when no previous state exists (the one
\* the constructor makes) sets the state and emits 'resize' with it and
\* nothing else, whatever the values computed.
C23_FirstComputation ==
  (constructed /\ hasWindow /\ priorState = Null) =>
    /\ ownState # Null
    /\ emitted = << [kind |-> "resize", args |-> << ownState >>] >>

\* a first state with touch, in landscape, under a named breakpoint
C23_Witness ==
  /\ constructed /\ hasWindow /\ priorState = Null
  /\ ownState.isTouch
  /\ ownState.orientation = "landscape"
  /\ ownState.breakpoint = "lg"

\* C24: without a window the constructor attaches no listener, and every
\* getState() returns a state object with isTouch = false and pixelRatio = 1.
C24_NoWindow ==
  (constructed /\ ~hasWindow) =>
    /\ attachedTo = {}
    /\ answer.op = "getState" =>
         /\ answer.value # Null
         /\ ~answer.value.isTouch
         /\ answer.value.pixelRatio = One

\* C25: once destroyed the engine stays destroyed whatever is called and
\* whatever the host signals: the flag stays true, no registration is made
\* with the host again, the observer and the media query lists stay
\* released, and the state is neither recomputed nor set; a destroy() call
\* on a destroyed engine changes no field of the engine, of its event
\* manager or of the host.
C25_DestroyTerminal ==
  [][ /\ isDestroyed =>
           /\ isDestroyed'
           /\ nativeListeners' \subseteq nativeListeners
           /\ ~resizeObserver' /\ mediaQueryLists' = {}
           /\ currentState' = Null
           /\ lastState' = lastState
           /\ recomputations' <= recomputations
      /\ (isDestroyed /\ (Destroy \/ HandlerCallsDestroy)) =>
           UNCHANGED << host, core, manager >> ]_vars

\* a host callback has run updateState on a destroyed engine, which
\* returned at its guard
C25_Witness ==
  /\ isDestroyed
  /\ pc = "done" /\ cycleLog = << >>
  /\ nativeListeners # {}

\* the instances made to be the global one that are not destroyed
GlobalsAlive ==
  { i \in 1..Len(instances) : instances[i].asGlobal /\ ~instances[i].isDestroyed }

\* C26: at most one instance made as the global one is not destroyed, and it
\* is globalInstance; getBreakpointJS() and the convenience calls return the
\* global instance, the one found when there was one (no instance is made
\* then, whatever config is given) and the one the call before returned
\* when no reset came between; configure, destroy and reset leave the global
\* instance they found destroyed, configure then installs a new one;
\* createBreakpointJS returns a new instance that is not the global one and
\* leaves globalInstance as it was.
C26_Singleton ==
  LET r == lastRequest
  IN /\ Cardinality(GlobalsAlive) <= 1
     /\ GlobalsAlive \subseteq { globalInstance }
     /\ globalInstance # 0 => instances[globalInstance].asGlobal
     /\ r.op \in {"getBreakpointJS", "breakpoint.*"} =>
          /\ r.returned # 0 /\ r.returned = globalInstance
          /\ r.found # 0 => (r.returned = r.found /\ r.made = 0)
          /\ r.held # 0 => r.returned = r.held
     /\ (r.op \in {"configure", "destroy", "resetGlobalInstance"} /\ r.found # 0) =>
          (instances[r.found].isDestroyed /\ globalInstance # r.found)
     /\ r.op \in {"destroy", "resetGlobalInstance"} =>
          (globalInstance = 0 /\ r.made = 0)
     /\ r.op = "configure" =>
          /\ r.made = 1 /\ globalInstance = Len(instances)
          /\ ~instances[globalInstance].isDestroyed
     /\ r.op = "createBreakpointJS" =>
          /\ r.made = 1 /\ r.returned = Len(instances)
          /\ ~instances[r.returned].asGlobal
          /\ globalInstance = r.found

\* getBreakpointJS returns the instance the call before returned, the
\* second global instance, an earlier one having been reset
C26_Witness ==
  /\ lastRequest.op = "getBreakpointJS"
  /\ lastRequest.held # 0
  /\ \E i \in 1..Len(instances) :
       i # globalInstance /\ instances[i].asGlobal /\ instances[i].isDestroyed

\* C27: in every computed state orientation is landscape iff width > height
\* and portrait otherwise (a square viewport is portrait), and every
\* 'orientationchange' emitted carries the orientation of the new state.
C27_Orientation ==
  (constructed /\ hasWindow) =>
    /\ ownState.orientation =
         (IF ownState.width > ownState.height THEN "landscape" ELSE "portrait")
    /\ \A i \in 1..Len(emitted) :
         emitted[i].kind = "orientationchange" =>
           emitted[i].args = << ownState.orientation >>

\* a landscape viewport has become square, and the change was emitted
C27_Witness ==
  /\ constructed /\ hasWindow
  /\ ownState.width = ownState.height
  /\ priorState # Null /\ priorState.orientation = "landscape"
  /\ \E i \in 1..Len(emitted) : emitted[i].kind = "orientationchange"

\* C30: in every computed state pixelRatio >= 1, and it is 1 when high-DPI
\* detection is disabled; isTouch is false in every state when touch
\* detection is disabled, and no 'touchchange' is emitted then.
C30_RatioAndTouch ==
  (constructed /\ hasWindow) =>
    /\ ownState.pixelRatio >= One
    /\ ~options.enableHighDPI => ownState.pixelRatio = One
    /\ ~options.enableTouch =>
         /\ ~ownState.isTouch
         /\ \A i \in 1..Len(emitted) : emitted[i].kind # "touchchange"

\* C28: for a name the table does not hold, above, below and between return
\* false and mediaQuery returns the empty string; for names it holds,
\* above(n) iff width > t, below(n) iff width < t, between(a, b) iff
\* t_a <= width < t_b; a query leaves the manager's state as it was.
C28_Queries ==
  query.op # "none" =>
    LET table == breakpointSystem.breakpoints
        n1 == IF query.names # << >> THEN query.names[1] ELSE ""
        n2 == IF query.names # << >> THEN query.names[Len(query.names)] ELSE ""
    IN /\ currentBreakpoint = updateCurrentBreakpoint(table, innerWidth)
       /\ query.op = "above" =>
            query.result = (n1 \in Names(table) /\ innerWidth > ValueOf(table, n1))
       /\ query.op = "below" =>
            query.result = (n1 \in Names(table) /\ innerWidth < ValueOf(table, n1))
       /\ query.op = "between" =>
            query.result = ( /\ n1 \in Names(table) /\ n2 \in Names(table)
                             /\ ValueOf(table, n1) <= innerWidth
                             /\ innerWidth < ValueOf(table, n2) )
       /\ (query.op = "mediaQuery" /\ n1 \notin Names(table)) =>
            query.result.text = ""

\* a threshold of the table is negative
HasNegative(table) == \E i \in 1..Len(table) : table[i].value < 0

\* the thresholds are not non-decreasing in enumeration order
HasDescent(table) ==
  \E i \in 1..(Len(table) - 1) : table[i].value > table[i + 1].value

\* C29: validateBreakpointSystem gives isValid = false with a matching error
\* for a table with a negative threshold or with thresholds that are not
\* non-decreasing, and isValid = true exactly when the name is non-empty,
\* the unit is px, em or rem, and the thresholds are non-negative and
\* non-decreasing; a breakpoint manager constructed with a negative or
\* non-ascending table reports it.
C29_Validation ==
  made =>
    LET table == breakpointSystem.breakpoints
    IN /\ query.op = "validate" =>
            /\ HasNegative(table) =>
                 \E e \in query.result.errors : e[1] = "negative"
            /\ HasDescent(table) => << "order", "" >> \in query.result.errors
            /\ query.result.isValid =
                 ( /\ breakpointSystem.name # ""
                   /\ breakpointSystem.unit \in {"px", "em", "rem"}
                   /\ ~HasNegative(table) /\ ~HasDescent(table) )
       /\ (HasNegative(table) \/ HasDescent(table)) => reported # << >>

\* ---------------------------------------------- claims: settle timers
\* C31: an 'orientationchange' event computes nothing and emits nothing when
\* it arrives, it leaves the state getState() returns as it was; its timer
\* is due 100ms later whatever debounceDelay is, and when it expires exactly
\* one recomputation runs in an engine that is not destroyed, none in a
\* destroyed one.
C31_SettleDelay ==
  /\ step.op = "orientationchange" =>
       /\ shown = step.before
       /\ step.ran = 0 /\ step.emits = << >>
  /\ \A timer \in hostTimers :
       timer.kind = "settle" =>
         /\ timer.due = timer.setAt + 100
         /\ time <= timer.due
  /\ (step.op = "timer" /\ step.kind = "settle") =>
       /\ step.waited = 100
       /\ step.ran = (IF gone THEN 0 ELSE 1)
       /\ gone => shown = step.before /\ step.emits = << >>
       /\ ~gone => step.emits = updateStateEmits(step.before, shown)

\* the settle timer of a rotation expired in an engine whose debounceDelay is
\* not 100 and its recomputation found another orientation
C31_Witness ==
  /\ step.op = "timer" /\ step.kind = "settle" /\ step.ran = 1
  /\ debounceDelay # 100
  /\ step.before.orientation # shown.orientation

\* ------------------------------------------------ claims: resize paths
ObserverPath == << "ResizeObserver", "documentElement" >>
WindowPath == << "window", "resize" >>

\* a size change was signalled and its frame or timer is pending
SizeChangeSignalled == ~isDestroyed /\ (hostFrames > 0 \/ debounceTimer)

\* a recomputation other than the constructor's has run
Recomputed == recomputations >= 1 /\ previousState # Null

Given(event) == { h \in Handlers : onCalls[event][h] >= 1 }

\* C33: whatever on, off, unsubscribe, emit and destroy calls were made, no
\* event kind is mapped to an empty handler set, no handler is held twice,
\* getListenerCount(kind) is the number of handlers the calls left registered
\* for the kind, hasListeners() is true iff a handler is registered for some
\* kind, and after destroy() the count of every kind is 0 and hasListeners()
\* is false.
C33_Bookkeeping ==
  /\ \A k \in EventTypes :
       /\ listeners[k].has => listeners[k].elems # << >>
       /\ Len(listeners[k].elems) = Cardinality(Elems(listeners[k].elems))
       /\ getListenerCount(listeners, k) = Cardinality(Given(k))
  /\ hasListeners(listeners) <=> (\E k \in EventTypes : Given(k) # {})
  /\ lastOp.name = "destroy" =>
       /\ ~hasListeners(listeners)
       /\ \A k \in EventTypes : getListenerCount(listeners, k) = 0

\* the last handler of a kind was removed by a function on() returned while
\* the other kind keeps its handlers: the count of the first is 0 and
\* hasListeners() is true
C33_Witness ==
  /\ lastOp.name = "unsubscribe" /\ lastOp.had >= 1
  /\ getListenerCount(listeners, lastOp.event) = 0
  /\ \E k \in SubscriptionKinds : getListenerCount(listeners, k) = 2
  /\ hasListeners(listeners)

\* how often x occurs in the sequence
Times(seq, x) == Cardinality({ i \in 1..Len(seq) : seq[i] = x })

\* C34: a handler given to on() k >= 1 times for a kind is held once for the
\* kind; an emission invokes it exactly once, and a handler that is not
\* registered not at all; one call of off or of any function on() returned
\* for it removes it, whatever k was.
C34_SharedRegistration ==
  /\ \A e \in SubscriptionKinds, h \in Handlers :
       Times(Delivered(listeners, e), h) = (IF onCalls[e][h] >= 1 THEN 1 ELSE 0)
  /\ lastOp.name = "emit" =>
       \A h \in Handlers :
         Times(lastOp.delivered, h) = (IF onCalls[lastOp.event][h] >= 1 THEN 1 ELSE 0)
  /\ lastOp.name \in {"off", "unsubscribe"} =>
       /\ ~Registered(listeners, lastOp.event, lastOp.callback)
       /\ getListenerCount(listeners, lastOp.event)
            = Cardinality(Given(lastOp.event) \ { lastOp.callback })

\* one call of a function on() returned has removed a handler that on() had
\* been given twice for the kind
C34_Witness ==
  /\ lastOp.name = "unsubscribe" /\ lastOp.had = 2
  /\ ~Registered(listeners, lastOp.event, lastOp.callback)

\* ---------------------------------------------------- claims: re-entrancy
\* C35: every callback passed to scheduleRAF and not yet run is held for a
\* frame that is requested; a frame runs exactly the callbacks held when it
\* fired, each once, whether or not one of them throws; a callback passed by
\* a callback of the running frame is not added to that frame: it is held
\* for the next one, which runs it.
C35_Reentrancy ==
  /\ rafCallbacks = owed
  /\ owed # {} => (hostFrames = 1 /\ rafId = "frame")
  /\ running \subseteq copied
  /\ \A cb \in Callbacks : ranNow[cb] = (IF cb \in copied \ running THEN 1 ELSE 0)
  /\ asked \subseteq owed
  /\ carried \subseteq copied

\* a frame has run all its callbacks although one threw, among them one
\* that a callback of the frame before had passed to scheduleRAF
C35_Witness ==
  /\ running = {}
  /\ threw # {} /\ Cardinality(copied) >= 2
  /\ \E cb \in carried : ranNow[cb] = 1 /\ cb \notin threw

\* ------------------------------------------ claims: destroy in a handler
\* a handler of the cycle has called destroy()
DestroyedInCycle ==
  \E i \in 1..Len(cycleLog) : cycleLog[i].t = "call" /\ cycleLog[i].op = "destroy"

\* C36: once a handler has called destroy() during a cycle, no handler is
\* invoked in the rest of the cycle, neither of the kind being emitted nor of
\* a kind emitted later, and a callback of the same frame that runs
\* updateState afterwards computes nothing and emits nothing.
C36_ReentrantDestroy ==
  [][ /\ DestroyedInCycle => ~HandlerInvoked
      /\ (isDestroyed /\ FrameCallback) =>
           /\ recomputations' = recomputations
           /\ currentState' = Null
           /\ cycleLog' = << >> ]_vars

\* ------------------------------------------- claims: the convenience API
\* C37: the instance that serves a breakpoint.* call is not destroyed.
C37_ServedByLive ==
  lastRequest.op = "breakpoint.*" => ~instances[lastRequest.returned].isDestroyed

\* ------------------------------------------------------ claims: creation
\* C38: createBreakpointJS(config) throws for no combination of the feature
\* toggles, the CSS integration of the instance generates its custom
\* properties without throwing, and with auto-update in a host with a
\* document it has subscribed to the viewport.
C38_NoThrow ==
  /\ outcome # "TypeError"
  /\ generated # "TypeError"
  /\ (outcome = "constructed" /\ toggles.autoCSSVars /\ hasDocument) =>
       {"resize", "breakpointchange"} \subseteq cssSubscriptions

\* ------------------------------------------------------ claims: watchers
\* C39: watchBreakpoint(name, cb) for a name of the table, whatever its
\* threshold, registers cb without a warning, calls it once at once with the
\* current match state and returns a function that removes exactly cb; for a
\* name the table does not hold it warns, registers nothing and returns a
\* no-op; a 'change' of a breakpoint's query calls the watchers of that
\* breakpoint with the new match state.
C39_WatchAlike ==
  /\ lastWatch.op = "watchBreakpoint" =>
       IF lastWatch.name \in Names(watchedTable)
       THEN /\ ~lastWatch.warned
            /\ lastWatch.unsubscribe = "remove"
            /\ watchers = lastWatch.before \cup { << lastWatch.name, lastWatch.callback >> }
            /\ lastWatch.invoked =
                 { << lastWatch.callback,
                      Matches(watchedTable[Lookup(watchedTable, lastWatch.name)].value, seenWidth) >> }
       ELSE /\ lastWatch.warned
            /\ lastWatch.unsubscribe = "no-op"
            /\ watchers = lastWatch.before
            /\ lastWatch.invoked = {}
  /\ lastWatch.op = "unsubscribe" =>
       watchers = lastWatch.before \ { << lastWatch.name, lastWatch.callback >> }
  /\ lastWatch.op = "change" =>
       { i[1] : i \in lastWatch.invoked }
         = { u[2] : u \in { x \in watchers : x[1] = lastWatch.name } }

\* --------------------------------------------- claims: two classifiers
\* the pure functions alone, on the table the manager was given
SameTableSameName ==
  LET tbl == SystemTable(pairSystem, pairCustom)
  IN tbl # << >> =>
       calculateBreakpoint([DEFAULT_CONFIG EXCEPT !.breakpoints = tbl], pairWidth)
         = updateCurrentBreakpoint(tbl, pairWidth)

\* C40: for the table of the instance's BreakpointManager and the window's
\* width, calculateBreakpoint of a ViewportCore with that table gives the name
\* updateCurrentBreakpoint gives; and once the engine and the manager of an
\* instance have processed what they were told, getState().breakpoint equals
\* breakpoints.getCurrentBreakpoint().
C40_ClassifiersAgree ==
  assembled =>
    /\ SameTableSameName
    /\ (~resizePending /\ ~changePending) =>
         stateBreakpoint
           = getCurrentBreakpoint(SystemTable(pairSystem, pairCustom), pairWidth,
                                  managerBreakpoint)

====
